---- MODULE Spec2Model ----
(***************************************************************************)
(* Settings synchronisation between the Electron main process (Control     *)
(* Authority) and the renderer (Presentation Peer) of the cassette music   *)
(* player: currentSettings, the settings file, the live always-on-top flag *)
(* of the main window and the IPC messages in flight.                      *)
(*                                                                         *)
(* Numbers that are fractions in the source are scaled by 100              *)
(* (volume 0.7 is 70); JavaScript null is the string "null"; an object is  *)
(* a function from its keys, so a key that is undefined is a key that is   *)
(* not in the DOMAIN.                                                      *)
(***************************************************************************)
EXTENDS Integers, Sequences, FiniteSets, TLC

VARIABLES
  phase,            \* "off": no process; "running": after app.whenReady
  currentSettings,  \* main process: let currentSettings (Null before load)
  defaultWindow,    \* the object DEFAULT_SETTINGS.window of the running process
  windowShared,     \* currentSettings.window IS the object DEFAULT_SETTINGS.window
  mainWindow,       \* "null" or "window"
  alwaysOnTopFlag,  \* mainWindow.isAlwaysOnTop() of the live window
  file,             \* SETTINGS_FILE on disk
  channel,          \* IPC messages sent by the renderer, in send order
  peerPc,           \* position of the renderer's asynchronous saveCurrentSettings
  reply,            \* answer of get-always-on-top held by the renderer
  peerVolume,       \* renderer: CONFIG.audio.volume
  lastOp,           \* history: the last event the main process handled
  lastSet,          \* history: value of the last set-always-on-top handled, as a set
  burst,            \* history: progress of the toggle pattern true, false, true
  overtaken,        \* history: set values sent before the answered query, still in flight
  CONFIG,           \* renderer: CONFIG.audio and CONFIG.appearance
  audioState,       \* renderer: audioState (folderPath, audioFiles, currentTrackIndex)
  restorePc,        \* position of the renderer's asynchronous loadSavedSettings
  settingsReply,    \* answer of get-settings held by the renderer
  filesReply,       \* answer of get-audio-files-from-path held by the renderer
  resource,         \* the folder behind the persisted folderPath
  boot,             \* start of the main process: environment and app paths
  currentTime,      \* renderer: audioState.audioElement.currentTime, in seconds
  trackHistory,     \* renderer: audioState.trackHistory
  shuffledPlaylist, \* renderer: audioState.shuffledPlaylist (track indices from 0)
  visited,          \* history: the tracks left by the shuffle navigation, in order
  startPc,          \* main.js with splash: "off", "splash" (timer pending), "started"
  splashWindow,     \* main.js: let splashWindow ("null" or "window")
  splashShown,      \* the splash BrowserWindow exists (it is not destroyed)
  splashProgress,   \* progress shown by the splash window
  mainVisible,      \* mainWindow.isVisible()
  lastCall          \* history: the last playback call of the renderer

vars == <<phase, currentSettings, defaultWindow, windowShared, mainWindow,
          alwaysOnTopFlag, file, channel, peerPc, reply, peerVolume,
          lastOp, lastSet, burst, overtaken,
          CONFIG, audioState, restorePc, settingsReply, filesReply, resource, boot,
          currentTime, trackHistory, shuffledPlaylist, visited,
          startPc, splashWindow, splashShown, splashProgress, mainVisible, lastCall>>

MaxInFlight == 2
Volumes == {50, 70}

----------------------------------------------------------------------------
(* JavaScript objects *)

EmptyObject == [k \in {} |-> TRUE]

\* { ...a, ...b }
Spread(a, b) ==
  [k \in (DOMAIN a) \cup (DOMAIN b) |-> IF k \in DOMAIN b THEN b[k] ELSE a[k]]

\* obj.key inside a spread: an undefined value spreads to nothing
Prop(obj, key) == IF key \in DOMAIN obj THEN obj[key] ELSE EmptyObject

Null == [null |-> TRUE]

DEFAULT_SETTINGS ==
  [audio |-> [volume |-> 70, tapeHissLevel |-> 30, wowFlutterLevel |-> 50,
              saturationLevel |-> 40, lowCutoff |-> 80, highCutoff |-> 12000,
              effectsEnabled |-> TRUE],
   appearance |-> [gradientEnabled |-> FALSE, gradientStartColor |-> "#1a1a2e",
                   gradientEndColor |-> "#2a2a4e", gradientAngle |-> 180,
                   backgroundOpacity |-> 80],
   window |-> [alwaysOnTop |-> FALSE],
   playback |-> [folderPath |-> "null", currentTrackIndex |-> 0,
                 shuffleEnabled |-> FALSE, shuffledPlaylist |-> <<>>]]

NoFile == [kind |-> "absent"]

\* fs.writeFileSync(SETTINGS_FILE, JSON.stringify(settings, null, 2), 'utf8')
saveSettings(settings) == [kind |-> "json", doc |-> settings]

\* a loadSettings whose fallback after an error is not the whole default table
loadSettingsBareFallback(f, dw) ==
  IF f.kind = "json"
  THEN [audio |-> Spread(DEFAULT_SETTINGS.audio, Prop(f.doc, "audio")),
        appearance |-> Spread(DEFAULT_SETTINGS.appearance, Prop(f.doc, "appearance")),
        window |-> Spread(dw, Prop(f.doc, "window")),
        playback |-> Spread(DEFAULT_SETTINGS.playback, Prop(f.doc, "playback"))]
  ELSE IF f.kind = "absent" THEN [DEFAULT_SETTINGS EXCEPT !.window = dw]
  ELSE [window |-> dw]

\* a loadSettings whose spreads are in the wrong order: the defaults win
loadSettingsDefaultsWin(f, dw) ==
  IF f.kind = "json"
  THEN [audio |-> Spread(Prop(f.doc, "audio"), DEFAULT_SETTINGS.audio),
        appearance |-> Spread(Prop(f.doc, "appearance"), DEFAULT_SETTINGS.appearance),
        window |-> Spread(Prop(f.doc, "window"), dw),
        playback |-> Spread(Prop(f.doc, "playback"), DEFAULT_SETTINGS.playback)]
  ELSE [DEFAULT_SETTINGS EXCEPT !.window = dw]

\* loadSettings(): the document it returns, given the file and the current
\* content of the object DEFAULT_SETTINGS.window
loadSettings(f, dw) ==
  IF f.kind = "json"
  THEN [audio |-> Spread(DEFAULT_SETTINGS.audio, Prop(f.doc, "audio")),
        appearance |-> Spread(DEFAULT_SETTINGS.appearance, Prop(f.doc, "appearance")),
        window |-> Spread(dw, Prop(f.doc, "window")),
        playback |-> Spread(DEFAULT_SETTINGS.playback, Prop(f.doc, "playback"))]
  ELSE [DEFAULT_SETTINGS EXCEPT !.window = dw]

\* whether the document loadSettings returns shares DEFAULT_SETTINGS.window
\* (return { ...DEFAULT_SETTINGS } is a shallow copy)
loadShares(f) == f.kind # "json"

\* fs.writeFileSync opens the file with flag 'w' (which truncates it) and then
\* writes: "ok" is the complete write, "denied" a failure of the open (the
\* file is untouched), "partial" a write that stopped after the truncation
writeFileSync(f, settings, outcome) ==
  CASE outcome = "ok" -> saveSettings(settings)
    [] outcome = "denied" -> f
    [] OTHER -> [kind |-> "torn"]

\* documents the settings file can hold when the process starts
\* every field of DEFAULT_SETTINGS, with values that are not the defaults
FullDocument ==
  [DEFAULT_SETTINGS EXCEPT !.audio.volume = 50, !.window.alwaysOnTop = TRUE,
                           !.playback.currentTrackIndex = 2]

\* the same with the ui domain that the snapshots and the test files carry
SchemaDocument == Spread(FullDocument, [ui |-> [showControlsHint |-> FALSE]])

\* a file of an older version: fields and whole domains are missing
PartialDocument ==
  [audio |-> [volume |-> 50],
   playback |-> [folderPath |-> "/music", currentTrackIndex |-> 2]]

\* an extra field inside a domain of DEFAULT_SETTINGS
ExtraFieldDocument ==
  [FullDocument EXCEPT !.audio = Spread(FullDocument.audio, [balance |-> 10])]

\* a domain that DEFAULT_SETTINGS does not have
ExtraDomainDocument == Spread(FullDocument, [equalizer |-> [preset |-> "rock"]])

StoredDocs == {FullDocument, SchemaDocument, PartialDocument, ExtraFieldDocument,
               ExtraDomainDocument}

\* "torn": text that JSON.parse rejects; "unreadable": fs.readFileSync throws
StoredFiles ==
  {NoFile, [kind |-> "torn"], [kind |-> "unreadable"]}
    \cup {saveSettings(d) : d \in StoredDocs}

----------------------------------------------------------------------------
(* Renderer *)

\* const CONFIG of the renderer: the audio and appearance parts
RendererConfig ==
  [audio |-> [tapeHissLevel |-> 30, wowFlutterLevel |-> 50, saturationLevel |-> 40,
              lowCutoff |-> 80, highCutoff |-> 12000, volume |-> 70,
              effectsEnabled |-> TRUE],
   appearance |-> [gradientEnabled |-> FALSE, gradientStartColor |-> "#1a1a2e",
                   gradientEndColor |-> "#2a2a4e", gradientAngle |-> 180,
                   backgroundOpacity |-> 80]]

\* const audioState of the renderer: the playback part; src is the source of
\* audioState.audioElement, 0 while it has none, else the name of the track
AudioStateInit ==
  [isPlaying |-> FALSE, currentTrackIndex |-> 0, audioFiles |-> <<>>,
   folderPath |-> "null", src |-> 0]

\* renderer.js saveCurrentSettings: the snapshot has no window key
SnapshotRenderer(vol) ==
  [audio |-> [CONFIG.audio EXCEPT !.volume = vol],
   appearance |-> CONFIG.appearance,
   playback |-> [folderPath |-> audioState.folderPath,
                 currentTrackIndex |-> audioState.currentTrackIndex]]

\* the asynchronous saveCurrentSettings: window.alwaysOnTop is the value the
\* get-always-on-top query was answered with
SnapshotWithWindow(vol, aot) ==
  [audio |-> [volume |-> vol],
   appearance |-> [gradientEnabled |-> CONFIG.appearance.gradientEnabled],
   window |-> [alwaysOnTop |-> aot],
   ui |-> [showControlsHint |-> TRUE],
   playback |-> [folderPath |-> audioState.folderPath,
                 currentTrackIndex |-> audioState.currentTrackIndex]]

\* loadSavedSettings: CONFIG.audio.volume = settings.audio.volume ?? CONFIG.audio.volume
loadedVolume(settings) ==
  IF "audio" \in DOMAIN settings /\ "volume" \in DOMAIN settings.audio
  THEN settings.audio.volume ELSE 70

\* every message of the channel is sent from the renderer process
\* (ipcRenderer.send, ipcRenderer.invoke)
Sender(m) == "PresentationPeer"

\* the owner of each domain: window is kept by the main process, the other
\* domains come from the renderer's snapshot
OwnershipTable ==
  [window |-> "ControlAuthority", audio |-> "PresentationPeer",
   appearance |-> "PresentationPeer", ui |-> "PresentationPeer",
   playback |-> "PresentationPeer"]

Remove(s, i) == [j \in 1..(Len(s) - 1) |-> IF j < i THEN s[j] ELSE s[j + 1]]

RendererAlive == phase = "running" /\ mainWindow = "window"

\* a slider of the settings panel changes CONFIG.audio.volume
ChangeVolume ==
  /\ RendererAlive
  /\ \E v \in Volumes : v # peerVolume /\ peerVolume' = v
  /\ UNCHANGED <<phase, currentSettings, defaultWindow, windowShared, mainWindow,
                 alwaysOnTopFlag, file, channel, peerPc, reply,
                 lastOp, lastSet, burst, overtaken>>
  /\ UNCHANGED <<CONFIG, audioState, restorePc, settingsReply, filesReply,
                 resource, boot,
                 currentTime, trackHistory, shuffledPlaylist, visited,
                 startPc, splashWindow, splashShown, splashProgress, mainVisible, lastCall>>

\* checkbox-always-on-top 'change': electronAPI.setAlwaysOnTop(e.target.checked)
ToggleAlwaysOnTop ==
  /\ RendererAlive
  /\ Len(channel) < MaxInFlight
  /\ \E v \in BOOLEAN : channel' = Append(channel, [type |-> "set", value |-> v])
  /\ UNCHANGED <<phase, currentSettings, defaultWindow, windowShared, mainWindow,
                 alwaysOnTopFlag, file, peerPc, reply, peerVolume,
                 lastOp, lastSet, burst, overtaken>>
  /\ UNCHANGED <<CONFIG, audioState, restorePc, settingsReply, filesReply,
                 resource, boot,
                 currentTime, trackHistory, shuffledPlaylist, visited,
                 startPc, splashWindow, splashShown, splashProgress, mainVisible, lastCall>>

\* closeSettings -> saveCurrentSettings (renderer.js): ipcRenderer.send('save-settings', settings)
CloseSettings ==
  /\ RendererAlive
  /\ Len(channel) < MaxInFlight
  /\ channel' = Append(channel, [type |-> "save", old |-> FALSE,
                                 settings |-> SnapshotRenderer(peerVolume)])
  /\ UNCHANGED <<phase, currentSettings, defaultWindow, windowShared, mainWindow,
                 alwaysOnTopFlag, file, peerPc, reply, peerVolume,
                 lastOp, lastSet, burst, overtaken>>
  /\ UNCHANGED <<CONFIG, audioState, restorePc, settingsReply, filesReply,
                 resource, boot,
                 currentTime, trackHistory, shuffledPlaylist, visited,
                 startPc, splashWindow, splashShown, splashProgress, mainVisible, lastCall>>

\* async saveCurrentSettings, first half: await getAlwaysOnTop()
SaveCurrentSettingsQuery ==
  /\ RendererAlive
  /\ peerPc = "idle"
  /\ Len(channel) < MaxInFlight
  /\ channel' = Append(channel, [type |-> "get"])
  /\ peerPc' = "awaiting"
  /\ UNCHANGED <<phase, currentSettings, defaultWindow, windowShared, mainWindow,
                 alwaysOnTopFlag, file, reply, peerVolume,
                 lastOp, lastSet, burst, overtaken>>
  /\ UNCHANGED <<CONFIG, audioState, restorePc, settingsReply, filesReply,
                 resource, boot,
                 currentTime, trackHistory, shuffledPlaylist, visited,
                 startPc, splashWindow, splashShown, splashProgress, mainVisible, lastCall>>

\* async saveCurrentSettings, second half: build the snapshot and send it
SaveCurrentSettingsSend ==
  /\ RendererAlive
  /\ peerPc = "answered"
  /\ Len(channel) < MaxInFlight
  /\ channel' = Append(channel, [type |-> "save", old |-> FALSE,
                                 settings |-> SnapshotWithWindow(peerVolume, reply)])
  /\ peerPc' = "idle"
  /\ reply' = FALSE
  /\ overtaken' = {}
  /\ UNCHANGED <<phase, currentSettings, defaultWindow, windowShared, mainWindow,
                 alwaysOnTopFlag, file, peerVolume, lastOp, lastSet, burst>>
  /\ UNCHANGED <<CONFIG, audioState, restorePc, settingsReply, filesReply,
                 resource, boot,
                 currentTime, trackHistory, shuffledPlaylist, visited,
                 startPc, splashWindow, splashShown, splashProgress, mainVisible, lastCall>>

----------------------------------------------------------------------------
(* Main process *)

\* app.whenReady().then(...): loadSettings, createWindow, restore the flag
WhenReady ==
  /\ phase = "off"
  /\ LET loaded == loadSettings(file, DEFAULT_SETTINGS.window)
     IN /\ currentSettings' = loaded
        /\ windowShared' = loadShares(file)
        /\ alwaysOnTopFlag' = loaded.window.alwaysOnTop
        /\ peerVolume' = loadedVolume(loaded)
  /\ phase' = "running"
  /\ defaultWindow' = DEFAULT_SETTINGS.window
  /\ mainWindow' = "window"
  /\ lastOp' = [type |-> "start", clean |-> lastOp.clean]
  /\ burst' = 0
  /\ UNCHANGED <<file, channel, peerPc, reply, lastSet, overtaken>>
  /\ UNCHANGED <<CONFIG, audioState, restorePc, settingsReply, filesReply,
                 resource, boot,
                 currentTime, trackHistory, shuffledPlaylist, visited,
                 startPc, splashWindow, splashShown, splashProgress, mainVisible, lastCall>>


\* history: progress of the pattern set(true), set(false), set(true)
burstAfterSet(b, v) ==
  IF v THEN (IF b = 2 THEN 3 ELSE 1)
       ELSE (IF b \in {1, 3} THEN 2 ELSE 0)

\* a get-always-on-top that answers with a set-always-on-top still in flight
getAlwaysOnTopSent ==
  LET sets == {j \in 1..Len(channel) : channel[j].type = "set"}
  IN IF sets # {}
     THEN channel[CHOOSE j \in sets : \A k \in sets : k >= j].value
     ELSE IF mainWindow = "window" THEN alwaysOnTopFlag ELSE FALSE

\* ipcMain.handle('get-always-on-top'): the value it returns
getAlwaysOnTop == IF mainWindow = "window" THEN alwaysOnTopFlag ELSE FALSE

\* a set-always-on-top that drops the write
setAlwaysOnTopSettingsRejected(cs, value) == cs

\* ipcMain.on('set-always-on-top'): the document it leaves in currentSettings
setAlwaysOnTopSettings(cs, value) ==
  LET withWindow == IF "window" \in DOMAIN cs
                    THEN cs
                    ELSE Spread(cs, [window |-> Spread(defaultWindow, EmptyObject)])
  IN [withWindow EXCEPT !.window = Spread(withWindow.window, [alwaysOnTop |-> value])]

\* ipcMain.on('set-always-on-top', (event, value) => ...)
SetAlwaysOnTop(i) ==
  /\ phase = "running"
  /\ i \in 1..Len(channel)
  /\ channel[i].type = "set"
  /\ LET value == channel[i].value
     IN /\ alwaysOnTopFlag' = IF mainWindow = "window" THEN value ELSE alwaysOnTopFlag
        /\ IF currentSettings # Null
           THEN /\ currentSettings' = setAlwaysOnTopSettings(currentSettings, value)
                /\ windowShared' = (windowShared /\ "window" \in DOMAIN currentSettings)
                /\ defaultWindow' = IF windowShared /\ "window" \in DOMAIN currentSettings
                                    THEN Spread(defaultWindow, [alwaysOnTop |-> value])
                                    ELSE defaultWindow
                /\ file' = saveSettings(currentSettings')
           ELSE UNCHANGED <<currentSettings, windowShared, defaultWindow, file>>
        /\ lastOp' = [type |-> "set", value |-> value]
        /\ lastSet' = {value}
        /\ burst' = burstAfterSet(burst, value)
  /\ channel' = Remove(channel, i)
  /\ UNCHANGED <<phase, mainWindow, peerPc, reply, peerVolume, overtaken>>
  /\ UNCHANGED <<CONFIG, audioState, restorePc, settingsReply, filesReply,
                 resource, boot,
                 currentTime, trackHistory, shuffledPlaylist, visited,
                 startPc, splashWindow, splashShown, splashProgress, mainVisible, lastCall>>

\* a save-settings that merges the snapshot and keeps the window domain
saveSettingsHandlerPreserve(cs, settings) ==
  [d \in ((DOMAIN cs) \cup (DOMAIN settings)) \ {"null"} |->
     IF d = "window" THEN Prop(cs, "window")
     ELSE Spread(Prop(cs, d), Prop(settings, d))]

\* a save-settings that stamps every snapshot it stores with a revision number
saveSettingsHandlerRevision(cs, settings) ==
  Spread(settings, [revision |-> IF "revision" \in DOMAIN cs
                                 THEN (cs.revision + 1) % 4 ELSE 1])

\* ipcMain.on('save-settings', (event, settings) => ...): the document it
\* leaves in currentSettings
saveSettingsHandler(cs, settings) == settings

SaveSettings(i) ==
  /\ phase = "running"
  /\ i \in 1..Len(channel)
  /\ channel[i].type = "save"
  /\ LET m == channel[i]
     IN /\ currentSettings' = saveSettingsHandler(currentSettings, m.settings)
        /\ file' = saveSettings(currentSettings')
        /\ windowShared' = FALSE
        \* history: again marks the snapshot of the previous handler handled anew
        /\ lastOp' = [type |-> "save", old |-> m.old, settings |-> m.settings,
                      again |-> (lastOp.type = "save" /\ lastOp.settings = m.settings)]
        /\ burst' = IF burst = 3 /\ "window" \in DOMAIN m.settings
                       /\ m.settings.window.alwaysOnTop = FALSE
                    THEN 4 ELSE 0
  \* history: the snapshots sent before this one and still in flight are now old
  /\ channel' = Remove([j \in 1..Len(channel) |->
                          IF j < i /\ channel[j].type = "save"
                          THEN [channel[j] EXCEPT !.old = TRUE]
                          ELSE channel[j]], i)
  /\ UNCHANGED <<phase, defaultWindow, mainWindow, alwaysOnTopFlag, peerPc, reply,
                 peerVolume, lastSet, overtaken>>
  /\ UNCHANGED <<CONFIG, audioState, restorePc, settingsReply, filesReply,
                 resource, boot,
                 currentTime, trackHistory, shuffledPlaylist, visited,
                 startPc, splashWindow, splashShown, splashProgress, mainVisible, lastCall>>

\* ipcMain.handle('get-always-on-top', () => ...), answered to the renderer
GetAlwaysOnTop(i) ==
  /\ phase = "running"
  /\ i \in 1..Len(channel)
  /\ channel[i].type = "get"
  /\ peerPc = "awaiting"
  /\ reply' = getAlwaysOnTop
  /\ peerPc' = "answered"
  /\ overtaken' = {channel[j].value : j \in {k \in 1..(i - 1) : channel[k].type = "set"}}
  /\ channel' = Remove(channel, i)
  /\ UNCHANGED <<phase, currentSettings, defaultWindow, windowShared, mainWindow,
                 alwaysOnTopFlag, file, peerVolume, lastOp, lastSet, burst>>
  /\ UNCHANGED <<CONFIG, audioState, restorePc, settingsReply, filesReply,
                 resource, boot,
                 currentTime, trackHistory, shuffledPlaylist, visited,
                 startPc, splashWindow, splashShown, splashProgress, mainVisible, lastCall>>

\* mainWindow.on('closed'): mainWindow = null; the renderer is gone with it
WindowClosed ==
  /\ phase = "running"
  /\ mainWindow = "window"
  /\ mainWindow' = "null"
  /\ alwaysOnTopFlag' = FALSE
  /\ channel' = SelectSeq(channel, LAMBDA m : m.type # "get")
  /\ peerPc' = "idle"
  /\ reply' = FALSE
  /\ peerVolume' = 70
  /\ overtaken' = {}
  /\ lastOp' = [type |-> "closed"]
  /\ burst' = 0
  /\ UNCHANGED <<phase, currentSettings, defaultWindow, windowShared, file, lastSet>>
  /\ CONFIG' = RendererConfig
  /\ audioState' = AudioStateInit
  /\ restorePc' = "init"
  /\ settingsReply' = Null
  /\ filesReply' = Null
  /\ currentTime' = 0
  /\ trackHistory' = <<>>
  /\ shuffledPlaylist' = <<>>
  /\ visited' = <<>>
  /\ UNCHANGED <<resource, boot, startPc, splashWindow, splashShown, splashProgress,
                 mainVisible, lastCall>>

\* app.on('activate'): createWindow() when mainWindow === null
Activate ==
  /\ phase = "running"
  /\ mainWindow = "null"
  /\ mainWindow' = "window"
  /\ alwaysOnTopFlag' = FALSE
  /\ peerVolume' = loadedVolume(currentSettings)
  /\ lastOp' = [type |-> "activate"]
  /\ burst' = 0
  /\ UNCHANGED <<phase, currentSettings, defaultWindow, windowShared, file, channel,
                 peerPc, reply, lastSet, overtaken>>
  /\ UNCHANGED <<CONFIG, audioState, restorePc, settingsReply, filesReply,
                 resource, boot,
                 currentTime, trackHistory, shuffledPlaylist, visited,
                 startPc, splashWindow, splashShown, splashProgress, mainVisible, lastCall>>

\* app.quit() or the end of the process: only the file survives
Quit ==
  /\ phase = "running"
  /\ phase' = "off"
  /\ currentSettings' = Null
  /\ defaultWindow' = DEFAULT_SETTINGS.window
  /\ windowShared' = FALSE
  /\ mainWindow' = "null"
  /\ alwaysOnTopFlag' = FALSE
  /\ channel' = <<>>
  /\ peerPc' = "idle"
  /\ reply' = FALSE
  /\ peerVolume' = 70
  /\ overtaken' = {}
  /\ lastOp' = [type |-> "quit", clean |-> (channel = <<>> /\ peerPc = "idle")]
  /\ burst' = 0
  /\ UNCHANGED <<file, lastSet>>
  /\ CONFIG' = RendererConfig
  /\ audioState' = AudioStateInit
  /\ restorePc' = "init"
  /\ settingsReply' = Null
  /\ filesReply' = Null
  /\ currentTime' = 0
  /\ trackHistory' = <<>>
  /\ shuffledPlaylist' = <<>>
  /\ visited' = <<>>
  /\ UNCHANGED <<resource, boot, startPc, splashWindow, splashShown, splashProgress,
                 mainVisible, lastCall>>

\* the document a handler is about to write for message m
CommitDocument(m) ==
  IF m.type = "set" THEN setAlwaysOnTopSettings(currentSettings, m.value)
  ELSE saveSettingsHandler(currentSettings, m.settings)

\* ipcMain.on('set-always-on-top') when fs.writeFileSync throws inside
\* saveSettings: the catch logs the error and the handler returns
SetAlwaysOnTopWriteFails(i) ==
  /\ phase = "running"
  /\ i \in 1..Len(channel)
  /\ channel[i].type = "set"
  /\ currentSettings # Null
  /\ LET value == channel[i].value
     IN /\ alwaysOnTopFlag' = IF mainWindow = "window" THEN value ELSE alwaysOnTopFlag
        /\ currentSettings' = setAlwaysOnTopSettings(currentSettings, value)
        /\ windowShared' = (windowShared /\ "window" \in DOMAIN currentSettings)
        /\ defaultWindow' = IF windowShared /\ "window" \in DOMAIN currentSettings
                            THEN Spread(defaultWindow, [alwaysOnTop |-> value])
                            ELSE defaultWindow
        /\ \E outcome \in {"denied", "partial"} :
             /\ file' = writeFileSync(file, currentSettings', outcome)
             /\ lastOp' = [type |-> "writeFailed", handler |-> "set", outcome |-> outcome]
        /\ lastSet' = {value}
        /\ burst' = burstAfterSet(burst, value)
  /\ channel' = Remove(channel, i)
  /\ UNCHANGED <<phase, mainWindow, peerPc, reply, peerVolume, overtaken>>
  /\ UNCHANGED <<CONFIG, audioState, restorePc, settingsReply, filesReply,
                 resource, boot,
                 currentTime, trackHistory, shuffledPlaylist, visited,
                 startPc, splashWindow, splashShown, splashProgress, mainVisible, lastCall>>

\* ipcMain.on('save-settings') when fs.writeFileSync throws inside saveSettings
SaveSettingsWriteFails(i) ==
  /\ phase = "running"
  /\ i \in 1..Len(channel)
  /\ channel[i].type = "save"
  /\ currentSettings' = saveSettingsHandler(currentSettings, channel[i].settings)
  /\ \E outcome \in {"denied", "partial"} :
       /\ file' = writeFileSync(file, currentSettings', outcome)
       /\ lastOp' = [type |-> "writeFailed", handler |-> "save", outcome |-> outcome]
  /\ windowShared' = FALSE
  /\ burst' = 0
  /\ channel' = Remove([j \in 1..Len(channel) |->
                          IF j < i /\ channel[j].type = "save"
                          THEN [channel[j] EXCEPT !.old = TRUE]
                          ELSE channel[j]], i)
  /\ UNCHANGED <<phase, defaultWindow, mainWindow, alwaysOnTopFlag, peerPc, reply,
                 peerVolume, lastSet, overtaken>>
  /\ UNCHANGED <<CONFIG, audioState, restorePc, settingsReply, filesReply,
                 resource, boot,
                 currentTime, trackHistory, shuffledPlaylist, visited,
                 startPc, splashWindow, splashShown, splashProgress, mainVisible, lastCall>>

\* the process dies while a handler is inside fs.writeFileSync: nothing, a
\* part, or all of the new document has reached the file
CrashDuringCommit(i) ==
  /\ phase = "running"
  /\ i \in 1..Len(channel)
  /\ channel[i].type \in {"set", "save"}
  /\ currentSettings # Null
  /\ \E outcome \in {"denied", "partial", "ok"} :
       file' = writeFileSync(file, CommitDocument(channel[i]), outcome)
  /\ phase' = "off"
  /\ currentSettings' = Null
  /\ defaultWindow' = DEFAULT_SETTINGS.window
  /\ windowShared' = FALSE
  /\ mainWindow' = "null"
  /\ alwaysOnTopFlag' = FALSE
  /\ channel' = <<>>
  /\ peerPc' = "idle"
  /\ reply' = FALSE
  /\ peerVolume' = 70
  /\ overtaken' = {}
  /\ lastOp' = [type |-> "quit", clean |-> FALSE]
  /\ burst' = 0
  /\ UNCHANGED lastSet
  /\ CONFIG' = RendererConfig
  /\ audioState' = AudioStateInit
  /\ restorePc' = "init"
  /\ settingsReply' = Null
  /\ filesReply' = Null
  /\ currentTime' = 0
  /\ trackHistory' = <<>>
  /\ shuffledPlaylist' = <<>>
  /\ visited' = <<>>
  /\ UNCHANGED <<resource, boot, startPc, splashWindow, splashShown, splashProgress,
                 mainVisible, lastCall>>

----------------------------------------------------------------------------
(* Portable mode: the top of the main module, run before app.whenReady *)

\* path.join
PathJoin(dir, name) == Append(dir, name)

\* app.getPath('userData') of an installed application
DefaultUserData == <<"AppData", "cassette-music-player">>

\* a path that is not set
undefined == <<>>

\* values of process.env.PORTABLE_EXECUTABLE_DIR
PortableDirs == {<<"PortableApps", "CassettePlayer">>, <<"E:", "Cassette">>}

\* the environment of a start: the variable, whether <dir>/UserData exists,
\* and which of mkdirSync and the two app.setPath calls throw
Environments ==
  [PORTABLE_EXECUTABLE_DIR : PortableDirs \cup {undefined},
   exists : BOOLEAN, mkdirThrows : BOOLEAN,
   setUserDataThrows : BOOLEAN, setSessionDataThrows : BOOLEAN]

BootStart(env) ==
  [pc |-> "start", env |-> env, isPortable |-> FALSE, dirExists |-> env.exists,
   caught |-> FALSE, userData |-> DefaultUserData, sessionData |-> DefaultUserData,
   SETTINGS_FILE |-> undefined]

BootInit ==
  BootStart([PORTABLE_EXECUTABLE_DIR |-> undefined, exists |-> FALSE,
             mkdirThrows |-> FALSE, setUserDataThrows |-> FALSE,
             setSessionDataThrows |-> FALSE])

portableUserData(env) == PathJoin(env.PORTABLE_EXECUTABLE_DIR, "UserData")

BootOnly ==
  UNCHANGED <<phase, currentSettings, defaultWindow, windowShared, mainWindow,
              alwaysOnTopFlag, file, channel, peerPc, reply, peerVolume,
              lastOp, lastSet, burst, overtaken,
              CONFIG, audioState, restorePc, settingsReply, filesReply, resource,
              currentTime, trackHistory, shuffledPlaylist, visited,
              startPc, splashWindow, splashShown, splashProgress, mainVisible, lastCall>>

\* const isPortable = process.env.PORTABLE_EXECUTABLE_DIR !== undefined
DetectPortable ==
  /\ boot.pc = "start"
  /\ LET isPortable == boot.env.PORTABLE_EXECUTABLE_DIR # undefined
     IN  boot' = [boot EXCEPT !.isPortable = isPortable,
                              !.pc = IF isPortable THEN "mkdir" ELSE "resolve"]
  /\ BootOnly

\* if (!fs.existsSync(portableUserData)) fs.mkdirSync(portableUserData, ...)
EnsurePortableDir ==
  /\ boot.pc = "mkdir"
  /\ boot' = IF boot.dirExists THEN [boot EXCEPT !.pc = "setUserData"]
             ELSE IF boot.env.mkdirThrows
                  THEN [boot EXCEPT !.caught = TRUE, !.pc = "resolve"]
                  ELSE [boot EXCEPT !.dirExists = TRUE, !.pc = "setUserData"]
  /\ BootOnly

\* app.setPath('userData', portableUserData)
SetUserDataPath ==
  /\ boot.pc = "setUserData"
  /\ boot' = IF boot.env.setUserDataThrows
             THEN [boot EXCEPT !.caught = TRUE, !.pc = "resolve"]
             ELSE [boot EXCEPT !.userData = portableUserData(boot.env),
                               !.pc = "setSessionData"]
  /\ BootOnly

\* app.setPath('sessionData', portableUserData)
SetSessionDataPath ==
  /\ boot.pc = "setSessionData"
  /\ boot' = IF boot.env.setSessionDataThrows
             THEN [boot EXCEPT !.caught = TRUE, !.pc = "resolve"]
             ELSE [boot EXCEPT !.sessionData = portableUserData(boot.env),
                               !.pc = "resolve"]
  /\ BootOnly

\* const SETTINGS_FILE = path.join(app.getPath('userData'), 'settings.json')
ResolveSettingsFile ==
  /\ boot.pc = "resolve"
  /\ boot' = [boot EXCEPT !.SETTINGS_FILE = PathJoin(boot.userData, "settings.json"),
                          !.pc = "ready"]
  /\ BootOnly

InitPortable ==
  /\ phase = "off"
  /\ currentSettings = Null
  /\ defaultWindow = DEFAULT_SETTINGS.window
  /\ windowShared = FALSE
  /\ mainWindow = "null"
  /\ alwaysOnTopFlag = FALSE
  /\ file = NoFile
  /\ channel = <<>>
  /\ peerPc = "idle"
  /\ reply = FALSE
  /\ peerVolume = 70
  /\ lastOp = [type |-> "quit", clean |-> TRUE]
  /\ lastSet = {}
  /\ burst = 0
  /\ overtaken = {}
  /\ CONFIG = RendererConfig
  /\ audioState = AudioStateInit
  /\ restorePc = "init"
  /\ settingsReply = Null
  /\ filesReply = Null
  /\ resource = [kind |-> "missing"]
  /\ \E env \in Environments : boot = BootStart(env)
  /\ currentTime = 0
  /\ trackHistory = <<>>
  /\ shuffledPlaylist = <<>>
  /\ visited = <<>>
  /\ startPc = "off"
  /\ splashWindow = "null"
  /\ splashShown = FALSE
  /\ splashProgress = 0
  /\ mainVisible = FALSE
  /\ lastCall = [op |-> "none"]

NextPortable ==
  \/ DetectPortable
  \/ EnsurePortableDir
  \/ SetUserDataPath
  \/ SetSessionDataPath
  \/ ResolveSettingsFile

SpecPortable == InitPortable /\ [][NextPortable]_vars

----------------------------------------------------------------------------
Init ==
  /\ phase = "off"
  /\ currentSettings = Null
  /\ defaultWindow = DEFAULT_SETTINGS.window
  /\ windowShared = FALSE
  /\ mainWindow = "null"
  /\ alwaysOnTopFlag = FALSE
  /\ file = NoFile
  /\ channel = <<>>
  /\ peerPc = "idle"
  /\ reply = FALSE
  /\ peerVolume = 70
  /\ lastOp = [type |-> "quit", clean |-> TRUE]
  /\ lastSet = {}
  /\ burst = 0
  /\ overtaken = {}
  /\ CONFIG = RendererConfig
  /\ audioState = AudioStateInit
  /\ restorePc = "init"
  /\ settingsReply = Null
  /\ filesReply = Null
  /\ resource = [kind |-> "missing"]
  /\ boot = BootInit
  /\ currentTime = 0
  /\ trackHistory = <<>>
  /\ shuffledPlaylist = <<>>
  /\ visited = <<>>
  /\ startPc = "off"
  /\ splashWindow = "null"
  /\ splashShown = FALSE
  /\ splashProgress = 0
  /\ mainVisible = FALSE
  /\ lastCall = [op |-> "none"]

Next ==
  \/ WhenReady
  \/ ChangeVolume
  \/ ToggleAlwaysOnTop
  \/ CloseSettings
  \/ SaveCurrentSettingsQuery
  \/ SaveCurrentSettingsSend
  \/ \E i \in 1..MaxInFlight : SetAlwaysOnTop(i)
  \/ \E i \in 1..MaxInFlight : SaveSettings(i)
  \/ \E i \in 1..MaxInFlight : GetAlwaysOnTop(i)
  \/ WindowClosed
  \/ Activate
  \/ Quit

Spec == Init /\ [][Next]_vars

\* The settings file and its faults: the process starts on any stored file,
\* the renderer toggles and closes the settings panel, a write can fail and the
\* process can die inside a write.
InitStore ==
  /\ phase = "off"
  /\ currentSettings = Null
  /\ defaultWindow = DEFAULT_SETTINGS.window
  /\ windowShared = FALSE
  /\ mainWindow = "null"
  /\ alwaysOnTopFlag = FALSE
  /\ file \in StoredFiles
  /\ channel = <<>>
  /\ peerPc = "idle"
  /\ reply = FALSE
  /\ peerVolume = 70
  /\ lastOp = [type |-> "quit", clean |-> TRUE]
  /\ lastSet = {}
  /\ burst = 0
  /\ overtaken = {}
  /\ CONFIG = RendererConfig
  /\ audioState = AudioStateInit
  /\ restorePc = "init"
  /\ settingsReply = Null
  /\ filesReply = Null
  /\ resource = [kind |-> "missing"]
  /\ boot = BootInit
  /\ currentTime = 0
  /\ trackHistory = <<>>
  /\ shuffledPlaylist = <<>>
  /\ visited = <<>>
  /\ startPc = "off"
  /\ splashWindow = "null"
  /\ splashShown = FALSE
  /\ splashProgress = 0
  /\ mainVisible = FALSE
  /\ lastCall = [op |-> "none"]

NextStore ==
  \/ WhenReady
  \/ ToggleAlwaysOnTop
  \/ CloseSettings
  \/ \E i \in 1..MaxInFlight : SetAlwaysOnTop(i)
  \/ \E i \in 1..MaxInFlight : SaveSettings(i)
  \/ \E i \in 1..MaxInFlight : SetAlwaysOnTopWriteFails(i)
  \/ \E i \in 1..MaxInFlight : SaveSettingsWriteFails(i)
  \/ \E i \in 1..MaxInFlight : CrashDuringCommit(i)
  \/ Quit

SpecStore == InitStore /\ [][NextStore]_vars

\* app.quit() with nothing in flight
QuitSettled == channel = <<>> /\ peerPc = "idle" /\ Quit

\* Message delivery while the process lives: the main process handles the
\* message at the head of the channel whenever one is there.
NextLive ==
  \/ WhenReady
  \/ ChangeVolume
  \/ ToggleAlwaysOnTop
  \/ CloseSettings
  \/ \E i \in 1..MaxInFlight : SetAlwaysOnTop(i)
  \/ \E i \in 1..MaxInFlight : SaveSettings(i)
  \/ WindowClosed
  \/ Activate
  \/ QuitSettled

SpecLive ==
  /\ Init
  /\ [][NextLive]_vars
  /\ WF_vars(SetAlwaysOnTop(1))
  /\ WF_vars(SaveSettings(1))


----------------------------------------------------------------------------
(* Startup restore of the renderer: init() awaits loadSavedSettings() before
   setupEventListeners(), so the panel is usable once the restore is over *)

MaxTracks == 3

\* the audio files of a folder, sorted by name
Tracks(n) == [i \in 1..n |-> [name |-> i]]

\* what is behind the persisted folderPath when the renderer asks for it
Resources ==
  {[kind |-> "missing"], [kind |-> "unreadable"], [kind |-> "rejects"]}
    \cup {[kind |-> "folder", audioFiles |-> Tracks(n)] : n \in 0..MaxTracks}

\* a document saved after a folder was opened
MusicDocument ==
  [FullDocument EXCEPT !.appearance.gradientEnabled = TRUE,
                       !.playback.folderPath = "/music",
                       !.playback.currentTrackIndex = 1]

RestoreFiles ==
  {NoFile, saveSettings(FullDocument), saveSettings(PartialDocument),
   saveSettings(MusicDocument)}

\* a[k] ?? b[k]: a[k] unless it is undefined (no stored document holds null
\* in an audio or appearance field)
Coalesce(a, b, k) == IF k \in DOMAIN a THEN a[k] ELSE b[k]

\* loadSavedSettings: if (settings.audio) {...} if (settings.appearance) {...}
applySavedSettings(config, settings) ==
  [d \in DOMAIN config |->
     IF d \in DOMAIN settings
     THEN [k \in DOMAIN config[d] |-> Coalesce(settings[d], config[d], k)]
     ELSE config[d]]

\* settings.playback && settings.playback.folderPath
hasFolderPath(settings) ==
  /\ "playback" \in DOMAIN settings
  /\ "folderPath" \in DOMAIN settings.playback
  /\ settings.playback.folderPath # "null"

\* restorePlaybackState after the answer of getAudioFilesFromPath: an answer
\* without audio files leaves audioState alone, and so does a rejected call
\* (catch); playbackSettings.currentTrackIndex || 0, reset to 0 when it is
\* past the end of the list
restorePlaybackStateEager(state, playbackSettings, result) ==
  [state EXCEPT !.folderPath = playbackSettings.folderPath]

restorePlaybackState(state, playbackSettings, result) ==
  IF "audioFiles" \in DOMAIN result /\ Len(result.audioFiles) > 0
  THEN LET stored == IF "currentTrackIndex" \in DOMAIN playbackSettings
                     THEN playbackSettings.currentTrackIndex ELSE 0
           trackIndex == IF stored >= Len(result.audioFiles) THEN 0 ELSE stored
       IN  [state EXCEPT !.folderPath = result.folderPath,
                         !.audioFiles = result.audioFiles,
                         !.currentTrackIndex = trackIndex]
  ELSE state

\* ipcMain.handle('get-audio-files-from-path'): null when the folder does not
\* exist, an empty list when it cannot be read (getAudioFilesFromFolder
\* catches), the rejection of the invoke when the call itself fails
getAudioFilesFromPath(folderPath, res) ==
  CASE res.kind = "missing" -> Null
    [] res.kind = "unreadable" -> [folderPath |-> folderPath, audioFiles |-> <<>>]
    [] res.kind = "rejects" -> [rejected |-> TRUE]
    [] OTHER -> [folderPath |-> folderPath, audioFiles |-> res.audioFiles]

RestoreDone == restorePc = "done"

\* loadSavedSettings: await window.electronAPI.getSettings()
LoadSavedSettings ==
  /\ RendererAlive
  /\ restorePc = "init"
  /\ restorePc' = "getSettings"
  /\ UNCHANGED <<phase, currentSettings, defaultWindow, windowShared, mainWindow,
                 alwaysOnTopFlag, file, channel, peerPc, reply, peerVolume,
                 lastOp, lastSet, burst, overtaken,
                 CONFIG, audioState, settingsReply, filesReply, resource, boot,
                 currentTime, trackHistory, shuffledPlaylist, visited,
                 startPc, splashWindow, splashShown, splashProgress, mainVisible, lastCall>>

\* ipcMain.handle('get-settings'): return currentSettings
GetSettingsSaves ==
  /\ RendererAlive
  /\ restorePc = "getSettings"
  /\ settingsReply' = currentSettings
  /\ restorePc' = "gotSettings"
  /\ file' = saveSettings(currentSettings)
  /\ UNCHANGED <<phase, currentSettings, defaultWindow, windowShared, mainWindow,
                 alwaysOnTopFlag, channel, peerPc, reply, peerVolume,
                 lastOp, lastSet, burst, overtaken,
                 CONFIG, audioState, filesReply, resource, boot,
                 currentTime, trackHistory, shuffledPlaylist, visited,
                 startPc, splashWindow, splashShown, splashProgress, mainVisible, lastCall>>

GetSettings ==
  /\ RendererAlive
  /\ restorePc = "getSettings"
  /\ settingsReply' = currentSettings
  /\ restorePc' = "gotSettings"
  /\ UNCHANGED <<phase, currentSettings, defaultWindow, windowShared, mainWindow,
                 alwaysOnTopFlag, file, channel, peerPc, reply, peerVolume,
                 lastOp, lastSet, burst, overtaken,
                 CONFIG, audioState, filesReply, resource, boot,
                 currentTime, trackHistory, shuffledPlaylist, visited,
                 startPc, splashWindow, splashShown, splashProgress, mainVisible, lastCall>>

\* loadSavedSettings after the answer: the audio and appearance values are
\* applied, then restorePlaybackState is entered when a folder was persisted
ApplySavedSettings ==
  /\ RendererAlive
  /\ restorePc = "gotSettings"
  /\ CONFIG' = applySavedSettings(CONFIG, settingsReply)
  /\ peerVolume' = CONFIG'.audio.volume
  /\ restorePc' = IF hasFolderPath(settingsReply) THEN "getFiles" ELSE "done"
  /\ UNCHANGED <<phase, currentSettings, defaultWindow, windowShared, mainWindow,
                 alwaysOnTopFlag, file, channel, peerPc, reply,
                 lastOp, lastSet, burst, overtaken,
                 audioState, settingsReply, filesReply, resource, boot,
                 currentTime, trackHistory, shuffledPlaylist, visited,
                 startPc, splashWindow, splashShown, splashProgress, mainVisible, lastCall>>

\* ipcMain.handle('get-audio-files-from-path', folderPath)
GetAudioFilesFromPath ==
  /\ RendererAlive
  /\ restorePc = "getFiles"
  /\ filesReply' = getAudioFilesFromPath(settingsReply.playback.folderPath, resource)
  /\ restorePc' = "gotFiles"
  /\ UNCHANGED <<phase, currentSettings, defaultWindow, windowShared, mainWindow,
                 alwaysOnTopFlag, file, channel, peerPc, reply, peerVolume,
                 lastOp, lastSet, burst, overtaken,
                 CONFIG, audioState, settingsReply, resource, boot,
                 currentTime, trackHistory, shuffledPlaylist, visited,
                 startPc, splashWindow, splashShown, splashProgress, mainVisible, lastCall>>

\* restorePlaybackState after the answer, or its catch
RestorePlaybackState ==
  /\ RendererAlive
  /\ restorePc = "gotFiles"
  /\ audioState' = restorePlaybackState(audioState, settingsReply.playback, filesReply)
  /\ restorePc' = "done"
  /\ UNCHANGED <<phase, currentSettings, defaultWindow, windowShared, mainWindow,
                 alwaysOnTopFlag, file, channel, peerPc, reply, peerVolume,
                 lastOp, lastSet, burst, overtaken,
                 CONFIG, settingsReply, filesReply, resource, boot,
                 currentTime, trackHistory, shuffledPlaylist, visited,
                 startPc, splashWindow, splashShown, splashProgress, mainVisible, lastCall>>

InitRestore ==
  /\ phase = "off"
  /\ currentSettings = Null
  /\ defaultWindow = DEFAULT_SETTINGS.window
  /\ windowShared = FALSE
  /\ mainWindow = "null"
  /\ alwaysOnTopFlag = FALSE
  /\ file \in RestoreFiles
  /\ channel = <<>>
  /\ peerPc = "idle"
  /\ reply = FALSE
  /\ peerVolume = 70
  /\ lastOp = [type |-> "quit", clean |-> TRUE]
  /\ lastSet = {}
  /\ burst = 0
  /\ overtaken = {}
  /\ CONFIG = RendererConfig
  /\ audioState = AudioStateInit
  /\ restorePc = "init"
  /\ settingsReply = Null
  /\ filesReply = Null
  /\ resource \in Resources
  /\ boot = BootInit
  /\ currentTime = 0
  /\ trackHistory = <<>>
  /\ shuffledPlaylist = <<>>
  /\ visited = <<>>
  /\ startPc = "off"
  /\ splashWindow = "null"
  /\ splashShown = FALSE
  /\ splashProgress = 0
  /\ mainVisible = FALSE
  /\ lastCall = [op |-> "none"]

NextRestore ==
  \/ WhenReady
  \/ LoadSavedSettings
  \/ GetSettings
  \/ ApplySavedSettings
  \/ GetAudioFilesFromPath
  \/ RestorePlaybackState
  \/ RestoreDone /\ ToggleAlwaysOnTop
  \/ RestoreDone /\ SaveCurrentSettingsQuery
  \/ RestoreDone /\ SaveCurrentSettingsSend
  \/ \E i \in 1..MaxInFlight : SetAlwaysOnTop(i)
  \/ \E i \in 1..MaxInFlight : SaveSettings(i)
  \/ \E i \in 1..MaxInFlight : GetAlwaysOnTop(i)

SpecRestore == InitRestore /\ [][NextRestore]_vars

----------------------------------------------------------------------------
(* Playback controls of the renderer: loadTrack, nextTrack, prevTrack *)

MaxSeconds == 4

\* persisted values of playback.currentTrackIndex: negative, inside a list of
\* two tracks or more, past the end of every list
PersistedIndexes == {-1, 1, MaxTracks + 1}

PlaybackDocument(index) ==
  [FullDocument EXCEPT !.playback.folderPath = "/music",
                       !.playback.currentTrackIndex = index]

\* the last document has no playback.currentTrackIndex
PlaybackFiles ==
  {saveSettings(PlaybackDocument(index)) : index \in PersistedIndexes}
    \cup {NoFile, saveSettings([playback |-> [folderPath |-> "/music"]])}

\* loadTrack: if (index < 0) index = length - 1; if (index >= length) index = 0
loadTrackIndexClamped(index, length) ==
  IF index < 0 THEN 0 ELSE IF index >= length THEN length - 1 ELSE index

loadTrackIndex(index, length) ==
  LET wrapped == IF index < 0 THEN length - 1 ELSE index
  IN  IF wrapped >= length THEN 0 ELSE wrapped

\* loadTrack(index): nothing without audio files; else the index is set, the
\* source of the audio element is the track, which starts at 0 seconds, and
\* saveCurrentSettings sends the snapshot
loadTrack(index) ==
  LET length == Len(audioState.audioFiles)
      next == loadTrackIndex(index, length)
      loaded == [audioState EXCEPT !.currentTrackIndex = next,
                                   !.src = audioState.audioFiles[next + 1].name]
  IN  IF length = 0
      THEN UNCHANGED <<audioState, currentTime, channel>>
      ELSE /\ Len(channel) < MaxInFlight
           /\ audioState' = loaded
           /\ currentTime' = 0
           /\ channel' = Append(channel,
                [type |-> "save", old |-> FALSE,
                 settings |-> [SnapshotRenderer(peerVolume) EXCEPT
                                 !.playback.currentTrackIndex = next]])

PlaybackOnly ==
  UNCHANGED <<phase, currentSettings, defaultWindow, windowShared, mainWindow,
              alwaysOnTopFlag, file, peerPc, reply, peerVolume,
              lastOp, lastSet, burst, overtaken,
              CONFIG, restorePc, settingsReply, filesReply, resource, boot,
              trackHistory, shuffledPlaylist, visited,
              startPc, splashWindow, splashShown, splashProgress, mainVisible>>

\* play() on an audio element without source, or a folder just opened: loadTrack(0);
\* any other index stands for a caller that passes it
LoadTrack(index) ==
  /\ RendererAlive
  /\ RestoreDone
  /\ loadTrack(index)
  /\ lastCall' = [op |-> "loadTrack", index |-> index]
  /\ PlaybackOnly

\* nextTrack, also the 'ended' event of the audio element
NextTrack ==
  /\ RendererAlive
  /\ RestoreDone
  /\ loadTrack(audioState.currentTrackIndex + 1)
  /\ lastCall' = [op |-> "nextTrack", from |-> audioState.currentTrackIndex]
  /\ PlaybackOnly

\* prevTrack: more than 3 seconds into the track restarts it
PrevTrackFromThree ==
  /\ RendererAlive
  /\ RestoreDone
  /\ IF currentTime >= 3
     THEN currentTime' = 0 /\ UNCHANGED <<audioState, channel>>
     ELSE loadTrack(audioState.currentTrackIndex - 1)
  /\ lastCall' = [op |-> "prevTrack", from |-> audioState.currentTrackIndex,
                  restarted |-> (currentTime >= 3)]
  /\ PlaybackOnly

PrevTrack ==
  /\ RendererAlive
  /\ RestoreDone
  /\ IF currentTime > 3
     THEN currentTime' = 0 /\ UNCHANGED <<audioState, channel>>
     ELSE loadTrack(audioState.currentTrackIndex - 1)
  /\ lastCall' = [op |-> "prevTrack", from |-> audioState.currentTrackIndex,
                  restarted |-> (currentTime > 3)]
  /\ PlaybackOnly

\* the loaded track plays on: audioElement.currentTime advances
TimeUpdate ==
  /\ RendererAlive
  /\ audioState.src # 0
  /\ currentTime < MaxSeconds
  /\ currentTime' = currentTime + 1
  /\ UNCHANGED <<audioState, channel, lastCall>>
  /\ PlaybackOnly

InitPlayback ==
  /\ phase = "off"
  /\ currentSettings = Null
  /\ defaultWindow = DEFAULT_SETTINGS.window
  /\ windowShared = FALSE
  /\ mainWindow = "null"
  /\ alwaysOnTopFlag = FALSE
  /\ file \in PlaybackFiles
  /\ channel = <<>>
  /\ peerPc = "idle"
  /\ reply = FALSE
  /\ peerVolume = 70
  /\ lastOp = [type |-> "quit", clean |-> TRUE]
  /\ lastSet = {}
  /\ burst = 0
  /\ overtaken = {}
  /\ CONFIG = RendererConfig
  /\ audioState = AudioStateInit
  /\ restorePc = "init"
  /\ settingsReply = Null
  /\ filesReply = Null
  /\ resource \in Resources
  /\ boot = BootInit
  /\ currentTime = 0
  /\ trackHistory = <<>>
  /\ shuffledPlaylist = <<>>
  /\ visited = <<>>
  /\ startPc = "off"
  /\ splashWindow = "null"
  /\ splashShown = FALSE
  /\ splashProgress = 0
  /\ mainVisible = FALSE
  /\ lastCall = [op |-> "none"]

NextPlayback ==
  \/ WhenReady
  \/ LoadSavedSettings
  \/ GetSettings
  \/ ApplySavedSettings
  \/ GetAudioFilesFromPath
  \/ RestorePlaybackState
  \/ \E index \in -1..(MaxTracks + 1) : LoadTrack(index)
  \/ NextTrack
  \/ PrevTrack
  \/ TimeUpdate
  \/ \E i \in 1..MaxInFlight : SaveSettings(i)

SpecPlayback == InitPlayback /\ [][NextPlayback]_vars

----------------------------------------------------------------------------
(* Shuffle order and track history: loadTrack(index, addToHistory),
   restorePlaybackState with the shuffled playlist, and the playlist logic of
   the shuffle tests.  Arrays are sequences; an index of the source is one
   less than the position in the sequence. *)

maxHistory == 50

\* arr[i] of the source
At(arr, i) == arr[i + 1]

\* arr.indexOf(v)
indexOf(arr, v) ==
  IF \E i \in 1..Len(arr) : arr[i] = v
  THEN (CHOOSE i \in 1..Len(arr) : arr[i] = v /\ \A j \in 1..(i - 1) : arr[j] # v) - 1
  ELSE -1

\* Array.from({ length: n }, (_, i) => i)
ArrayFromLength(n) == [i \in 1..n |-> i - 1]

\* [p[i], p[j]] = [p[j], p[i]]
Swap(p, i, j) ==
  [k \in 1..Len(p) |-> IF k = i + 1 THEN At(p, j) ELSE IF k = j + 1 THEN At(p, i) ELSE p[k]]

\* for (let i = length - 1; i > 0; i--) { j = Math.floor(Math.random() * (i + 1)); swap }
\* every value of Math.random: the set of the lists the loop can end with
RECURSIVE FisherYates(_, _)
FisherYates(p, i) ==
  IF i <= 0 THEN {p}
  ELSE UNION {FisherYates(Swap(p, i, j), i - 1) : j \in 0..i}

\* the playlist is generated when its length is not the number of audio files
generateShuffledPlaylist(playlist, n) ==
  IF Len(playlist) # n THEN FisherYates(ArrayFromLength(n), n - 1) ELSE {playlist}

\* the entry after the current track in the playlist, the first after the last
shuffleNextSticky(playlist, current) ==
  LET pos == indexOf(playlist, current)
  IN  At(playlist, IF pos + 1 >= Len(playlist) THEN pos ELSE pos + 1)

shuffleNext(playlist, current) ==
  LET currentPosInPlaylist == indexOf(playlist, current)
      nextPosInPlaylist == (currentPosInPlaylist + 1) % Len(playlist)
  IN  At(playlist, nextPosInPlaylist)

\* trackHistory.push(current); if (trackHistory.length > 50) trackHistory.shift()
pushHistoryDropNewest(history, current) ==
  IF Len(history) >= maxHistory THEN history ELSE Append(history, current)

pushHistory(history, current) ==
  LET pushed == Append(history, current)
  IN  IF Len(pushed) > maxHistory THEN Tail(pushed) ELSE pushed

\* loadTrack(index, addToHistory): the history after the call
loadTrackHistoryAlways(history, current, index, addToHistory) ==
  IF current # index THEN pushHistory(history, current) ELSE history

loadTrackHistory(history, current, index, addToHistory) ==
  IF addToHistory /\ current # index THEN pushHistory(history, current) ELSE history

\* loadTrack(index, addToHistory = true) of the version with a track history
loadTrackWithHistory(index, addToHistory) ==
  LET length == Len(audioState.audioFiles)
      next == loadTrackIndex(index, length)
  IN  IF length = 0
      THEN UNCHANGED <<audioState, currentTime, trackHistory>>
      ELSE /\ trackHistory' = loadTrackHistory(trackHistory, audioState.currentTrackIndex,
                                               next, addToHistory)
           /\ audioState' = [audioState EXCEPT
                               !.currentTrackIndex = next,
                               !.src = audioState.audioFiles[next + 1].name]
           /\ currentTime' = 0

RendererOnly ==
  UNCHANGED <<phase, currentSettings, defaultWindow, windowShared, mainWindow,
              alwaysOnTopFlag, file, channel, peerPc, reply, peerVolume,
              lastOp, lastSet, burst, overtaken,
              CONFIG, settingsReply, filesReply, resource, boot,
              startPc, splashWindow, splashShown, splashProgress, mainVisible>>

\* persisted playback.shuffledPlaylist, written from a playlist of an earlier
\* run: none, or the order 1, ..., n-1, 0 of the n tracks the folder then had
PersistedPlaylists ==
  {<<>>} \cup {[i \in 1..n |-> i % n] : n \in 2..MaxTracks}

ShuffleDocument(index, playlist) ==
  [FullDocument EXCEPT !.playback.folderPath = "/music",
                       !.playback.currentTrackIndex = index,
                       !.playback.shuffleEnabled = TRUE,
                       !.playback.shuffledPlaylist = playlist]

ShuffleFiles ==
  {saveSettings(ShuffleDocument(index, playlist)) :
     index \in PersistedIndexes, playlist \in PersistedPlaylists}

Folders == {[kind |-> "folder", audioFiles |-> Tracks(n)] : n \in 0..MaxTracks}

\* playbackSettings.shuffledPlaylist && playbackSettings.shuffledPlaylist.length
\*   === audioState.audioFiles.length
restoredShuffledPlaylistAlways(playbackSettings, playlist, n) ==
  IF "shuffledPlaylist" \in DOMAIN playbackSettings
  THEN playbackSettings.shuffledPlaylist ELSE playlist

restoredShuffledPlaylist(playbackSettings, playlist, n) ==
  IF /\ "shuffledPlaylist" \in DOMAIN playbackSettings
     /\ Len(playbackSettings.shuffledPlaylist) = n
  THEN playbackSettings.shuffledPlaylist ELSE playlist

\* restorePlaybackState of the version with shuffle: the folder and its files,
\* then the shuffled playlist, then loadTrack(trackIndex, false)
RestorePlaybackState_NEW ==
  /\ RendererAlive
  /\ restorePc = "gotFiles"
  /\ LET playbackSettings == settingsReply.playback
         files == filesReply.audioFiles
         stored == IF "currentTrackIndex" \in DOMAIN playbackSettings
                   THEN playbackSettings.currentTrackIndex ELSE 0
         trackIndex == IF stored >= Len(files) THEN 0 ELSE stored
         next == loadTrackIndex(trackIndex, Len(files))
     IN  /\ shuffledPlaylist' =
              restoredShuffledPlaylist(playbackSettings, shuffledPlaylist, Len(files))
         /\ trackHistory' =
              IF Len(files) = 0 THEN <<>>
              ELSE loadTrackHistory(<<>>, audioState.currentTrackIndex, next, FALSE)
         /\ audioState' =
              IF Len(files) = 0
              THEN [audioState EXCEPT !.folderPath = playbackSettings.folderPath,
                                      !.audioFiles = files, !.src = 0]
              ELSE [audioState EXCEPT !.folderPath = playbackSettings.folderPath,
                                      !.audioFiles = files,
                                      !.currentTrackIndex = next,
                                      !.src = files[next + 1].name]
         /\ currentTime' = 0
  /\ restorePc' = "done"
  /\ visited' = <<>>
  /\ lastCall' = [op |-> "restore"]
  /\ RendererOnly

\* shuffle is switched on: the playlist is generated unless it has the length
\* of the track list
GenerateShuffledPlaylist ==
  /\ RendererAlive
  /\ RestoreDone
  /\ shuffledPlaylist' \in
       generateShuffledPlaylist(shuffledPlaylist, Len(audioState.audioFiles))
  /\ visited' = <<>>
  /\ lastCall' = [op |-> "generate"]
  /\ UNCHANGED <<audioState, currentTime, trackHistory, restorePc>>
  /\ RendererOnly

\* one step of the navigation through the shuffled playlist
ShuffleStep ==
  /\ RendererAlive
  /\ RestoreDone
  /\ Len(shuffledPlaylist) > 0
  /\ audioState' = [audioState EXCEPT !.currentTrackIndex =
                      shuffleNext(shuffledPlaylist, audioState.currentTrackIndex)]
  /\ visited' = IF Len(visited) >= Len(shuffledPlaylist) + 2
                THEN <<audioState.currentTrackIndex>>
                ELSE Append(visited, audioState.currentTrackIndex)
  /\ lastCall' = [op |-> "shuffleStep", from |-> audioState.currentTrackIndex]
  /\ UNCHANGED <<currentTime, trackHistory, shuffledPlaylist, restorePc>>
  /\ RendererOnly

\* loadTrack(index, addToHistory) called by the controls
LoadTrackWithHistory(index, addToHistory) ==
  /\ RendererAlive
  /\ RestoreDone
  /\ loadTrackWithHistory(index, addToHistory)
  /\ lastCall' = [op |-> "loadTrack", index |-> index, addToHistory |-> addToHistory,
                  from |-> audioState.currentTrackIndex,
                  shifted |-> (Len(trackHistory) = maxHistory
                               /\ Len(audioState.audioFiles) > 0)]
  /\ UNCHANGED <<shuffledPlaylist, visited, restorePc>>
  /\ RendererOnly

\* going back: the last entry of the history is popped and that track is
\* loaded without adding to the history
GoBack ==
  /\ RendererAlive
  /\ RestoreDone
  /\ Len(trackHistory) > 0
  /\ LET prev == trackHistory[Len(trackHistory)]
         popped == SubSeq(trackHistory, 1, Len(trackHistory) - 1)
     IN  /\ trackHistory' = popped
         /\ audioState' = [audioState EXCEPT
                             !.currentTrackIndex = prev,
                             !.src = audioState.audioFiles[prev + 1].name]
         /\ currentTime' = 0
         /\ lastCall' = [op |-> "goBack", prev |-> prev]
  /\ UNCHANGED <<shuffledPlaylist, visited, restorePc>>
  /\ RendererOnly

InitRenderer ==
  /\ phase = "off"
  /\ currentSettings = Null
  /\ defaultWindow = DEFAULT_SETTINGS.window
  /\ windowShared = FALSE
  /\ mainWindow = "null"
  /\ alwaysOnTopFlag = FALSE
  /\ channel = <<>>
  /\ peerPc = "idle"
  /\ reply = FALSE
  /\ peerVolume = 70
  /\ lastOp = [type |-> "quit", clean |-> TRUE]
  /\ lastSet = {}
  /\ burst = 0
  /\ overtaken = {}
  /\ CONFIG = RendererConfig
  /\ audioState = AudioStateInit
  /\ restorePc = "init"
  /\ settingsReply = Null
  /\ filesReply = Null
  /\ boot = BootInit
  /\ currentTime = 0
  /\ trackHistory = <<>>
  /\ shuffledPlaylist = <<>>
  /\ visited = <<>>
  /\ startPc = "off"
  /\ splashWindow = "null"
  /\ splashShown = FALSE
  /\ splashProgress = 0
  /\ mainVisible = FALSE
  /\ lastCall = [op |-> "none"]

InitShuffle ==
  /\ InitRenderer
  /\ file \in ShuffleFiles
  /\ resource \in Folders

NextShuffle ==
  \/ WhenReady
  \/ LoadSavedSettings
  \/ GetSettings
  \/ ApplySavedSettings
  \/ GetAudioFilesFromPath
  \/ RestorePlaybackState_NEW
  \/ GenerateShuffledPlaylist
  \/ ShuffleStep

SpecShuffle == InitShuffle /\ [][NextShuffle]_vars

\* the track history of a folder of two tracks
HistoryFiles ==
  {saveSettings(ShuffleDocument(index, <<>>)) : index \in PersistedIndexes}

InitHistory ==
  /\ InitRenderer
  /\ file \in HistoryFiles
  /\ resource = [kind |-> "folder", audioFiles |-> <<[name |-> 1], [name |-> 2]>>]

NextHistory ==
  \/ WhenReady
  \/ LoadSavedSettings
  \/ GetSettings
  \/ ApplySavedSettings
  \/ GetAudioFilesFromPath
  \/ RestorePlaybackState_NEW
  \/ \E index \in -1..2 : LoadTrackWithHistory(index, TRUE)
  \/ \E index \in -1..2 : Len(trackHistory) = 0 /\ LoadTrackWithHistory(index, FALSE)
  \/ GoBack

SpecHistory == InitHistory /\ [][NextHistory]_vars

----------------------------------------------------------------------------
(* The splash window of src/src/main.js.  splashWindow and mainWindow are the
   two references; splashShown says that the splash BrowserWindow exists and
   is not destroyed, mainVisible is mainWindow.isVisible(). *)

RendererProgress == {60, 100}

SplashOnly ==
  UNCHANGED <<phase, currentSettings, defaultWindow, windowShared,
              alwaysOnTopFlag, file, channel, peerPc, reply, peerVolume,
              lastOp, lastSet, burst, overtaken,
              CONFIG, audioState, restorePc, settingsReply, filesReply,
              resource, boot, currentTime, trackHistory, shuffledPlaylist, visited>>

\* splashWindow && !splashWindow.isDestroyed()
SplashOpen == splashWindow = "window" /\ splashShown

\* updateSplashProgress(progress, message): the value the splash shows after it
updateSplashProgress(progress) ==
  IF SplashOpen THEN progress ELSE splashProgress

\* the 'close' handler of the splash window calls e.preventDefault()
ClosePrevented == mainWindow = "window" /\ ~mainVisible

\* app.on('window-all-closed'): app.quit() unless the platform is darwin
WindowAllClosed(windowsLeft) ==
  IF windowsLeft THEN {startPc} ELSE {startPc, "quit"}

\* app.whenReady().then: createSplashWindow(), the timer is set
SplashWhenReady ==
  /\ startPc = "off"
  /\ startPc' = "splash"
  /\ splashWindow' = "window"
  /\ splashShown' = TRUE
  /\ lastCall' = [op |-> "whenReady"]
  /\ UNCHANGED <<mainWindow, mainVisible, splashProgress>>
  /\ SplashOnly

\* the timer: updateSplashProgress(5), createWindow() with show: false and
\* updateSplashProgress(10), createTray()
StartTimer ==
  /\ startPc = "splash"
  /\ startPc' = "started"
  /\ mainWindow' = "window"
  /\ mainVisible' = FALSE
  /\ splashProgress' = updateSplashProgress(10)
  /\ lastCall' = [op |-> "createWindow"]
  /\ UNCHANGED <<splashWindow, splashShown>>
  /\ SplashOnly

\* mainWindow.webContents.on('dom-ready')
DomReady ==
  /\ startPc = "started"
  /\ mainWindow = "window"
  /\ splashProgress' = updateSplashProgress(40)
  /\ lastCall' = [op |-> "domReady"]
  /\ UNCHANGED <<startPc, splashWindow, splashShown, mainWindow, mainVisible>>
  /\ SplashOnly

\* ipcMain.on('splash-progress')
SplashProgress(progress) ==
  /\ startPc = "started"
  /\ mainWindow = "window"
  /\ splashProgress' = updateSplashProgress(progress)
  /\ lastCall' = [op |-> "splashProgress", progress |-> progress]
  /\ UNCHANGED <<startPc, splashWindow, splashShown, mainWindow, mainVisible>>
  /\ SplashOnly

\* the user asks the splash window to close: the 'close' event, and the
\* window is destroyed unless the handler prevents it; the reference stays
SplashCloseRequest ==
  /\ startPc \in {"splash", "started"}
  /\ splashShown
  /\ splashShown' = ClosePrevented
  /\ startPc' \in WindowAllClosed(ClosePrevented \/ mainWindow = "window")
  /\ lastCall' = [op |-> "splashClose", prevented |-> ClosePrevented]
  /\ UNCHANGED <<splashWindow, splashProgress, mainWindow, mainVisible>>
  /\ SplashOnly

\* ipcMain.on('app-ready') with closeSplashWindow() before mainWindow.show()
AppReadyCloseFirst ==
  /\ startPc = "started"
  /\ IF mainWindow = "window"
     THEN /\ splashShown' = (splashShown /\ (~SplashOpen \/ ClosePrevented))
          /\ splashWindow' = IF SplashOpen THEN "null" ELSE splashWindow
          /\ mainVisible' = TRUE
     ELSE UNCHANGED <<mainVisible, splashWindow, splashShown>>
  /\ lastCall' = [op |-> "appReady", hadWindow |-> mainWindow = "window",
                  splashOpen |-> SplashOpen]
  /\ UNCHANGED <<startPc, splashProgress, mainWindow>>
  /\ SplashOnly

\* ipcMain.on('app-ready'): mainWindow.show(), mainWindow.focus(),
\* closeSplashWindow(), whose close() meets a visible main window
AppReady ==
  /\ startPc = "started"
  /\ IF mainWindow = "window"
     THEN /\ mainVisible' = TRUE
          /\ splashShown' = (splashShown /\ ~SplashOpen)
          /\ splashWindow' = IF SplashOpen THEN "null" ELSE splashWindow
     ELSE UNCHANGED <<mainVisible, splashWindow, splashShown>>
  /\ lastCall' = [op |-> "appReady", hadWindow |-> mainWindow = "window",
                  splashOpen |-> SplashOpen]
  /\ UNCHANGED <<startPc, splashProgress, mainWindow>>
  /\ SplashOnly

\* tray.on('double-click'): hides a visible main window, shows a hidden one
TrayDoubleClick ==
  /\ startPc = "started"
  /\ mainVisible' = IF mainWindow = "window" THEN ~mainVisible ELSE mainVisible
  /\ lastCall' = [op |-> "trayDoubleClick"]
  /\ UNCHANGED <<startPc, splashWindow, splashShown, splashProgress, mainWindow>>
  /\ SplashOnly

\* mainWindow.on('minimize'): event.preventDefault(), mainWindow.hide()
Minimize ==
  /\ startPc = "started"
  /\ mainWindow = "window"
  /\ mainVisible
  /\ mainVisible' = FALSE
  /\ lastCall' = [op |-> "minimize"]
  /\ UNCHANGED <<startPc, splashWindow, splashShown, splashProgress, mainWindow>>
  /\ SplashOnly

\* ipcMain.on('show-window')
ShowWindow ==
  /\ startPc = "started"
  /\ mainVisible' = IF mainWindow = "window" THEN TRUE ELSE mainVisible
  /\ lastCall' = [op |-> "showWindow"]
  /\ UNCHANGED <<startPc, splashWindow, splashShown, splashProgress, mainWindow>>
  /\ SplashOnly

\* mainWindow.on('closed'): mainWindow = null
MainClosed ==
  /\ startPc = "started"
  /\ mainWindow = "window"
  /\ mainWindow' = "null"
  /\ mainVisible' = FALSE
  /\ startPc' \in WindowAllClosed(splashShown)
  /\ lastCall' = [op |-> "closed"]
  /\ UNCHANGED <<splashWindow, splashShown, splashProgress>>
  /\ SplashOnly

\* app.on('activate'): createWindow() when mainWindow === null
SplashActivate ==
  /\ startPc = "started"
  /\ IF mainWindow = "null"
     THEN /\ mainWindow' = "window"
          /\ mainVisible' = FALSE
          /\ splashProgress' = updateSplashProgress(10)
     ELSE UNCHANGED <<mainWindow, mainVisible, splashProgress>>
  /\ lastCall' = [op |-> "activate"]
  /\ UNCHANGED <<startPc, splashWindow, splashShown>>
  /\ SplashOnly

InitSplash ==
  /\ InitRenderer
  /\ file = NoFile
  /\ resource = [kind |-> "missing"]

NextSplash ==
  \/ SplashWhenReady
  \/ StartTimer
  \/ DomReady
  \/ \E progress \in RendererProgress : SplashProgress(progress)
  \/ SplashCloseRequest
  \/ AppReady
  \/ TrayDoubleClick
  \/ Minimize
  \/ ShowWindow
  \/ MainClosed
  \/ SplashActivate

SpecSplash == InitSplash /\ [][NextSplash]_vars

----------------------------------------------------------------------------
(* Observations used by the properties *)

HasAlwaysOnTop(doc) ==
  "window" \in DOMAIN doc /\ "alwaysOnTop" \in DOMAIN doc.window

\* Get("window").alwaysOnTop of a document is v
AlwaysOnTopIs(doc, v) == HasAlwaysOnTop(doc) /\ doc.window.alwaysOnTop = v

\* the persisted document holds window.alwaysOnTop = v
PersistedAlwaysOnTopIs(f, v) == f.kind = "json" /\ AlwaysOnTopIs(f.doc, v)

\* window.alwaysOnTop that the next startup loads from the file
RestartAlwaysOnTop(f) == loadSettings(f, DEFAULT_SETTINGS.window).window.alwaysOnTop

PersistedDomain(f, d) == IF f.kind = "json" THEN Prop(f.doc, d) ELSE EmptyObject

\* C1: whichever of set-always-on-top(v) and a save-settings snapshot carrying
\* a stale window.alwaysOnTop # v is handled second, after it currentSettings
\* and the settings file hold window.alwaysOnTop = v.
C1_EitherOrderKeepsOwnerValue ==
  [][\A i \in 1..MaxInFlight :
       /\ ( /\ SaveSettings(i)
            /\ lastOp.type = "set"
            /\ HasAlwaysOnTop(channel[i].settings)
            /\ channel[i].settings.window.alwaysOnTop # lastOp.value )
          => ( /\ AlwaysOnTopIs(currentSettings', lastOp.value)
               /\ PersistedAlwaysOnTopIs(file', lastOp.value) )
       /\ ( /\ SetAlwaysOnTop(i)
            /\ lastOp.type = "save"
            /\ HasAlwaysOnTop(lastOp.settings)
            /\ lastOp.settings.window.alwaysOnTop # channel[i].value )
          => ( /\ AlwaysOnTopIs(currentSettings', channel[i].value)
               /\ PersistedAlwaysOnTopIs(file', channel[i].value) )
    ]_vars


\* C2: ownership invariant for the window domain, owned by the main process:
\* handling a save-settings snapshot of the renderer leaves Get("window") as it
\* was, and while the process runs window.alwaysOnTop is the value of the most
\* recent set-always-on-top handled.
C2_OwnershipInvariant ==
  [][ /\ \A i \in 1..MaxInFlight :
           SaveSettings(i)
             => Prop(currentSettings', "window") = Prop(currentSettings, "window")
      /\ \A v \in BOOLEAN :
           (phase' = "running" /\ lastSet' = {v}) => AlwaysOnTopIs(currentSettings', v)
    ]_vars

\* C3: race scenario: set-always-on-top(true) has been handled and the renderer's
\* snapshot carrying the stale window.alwaysOnTop = false and a new volume is
\* handled next; afterwards window.alwaysOnTop is true and every submitted
\* audio field has the submitted value.
C3_RaceKeepsWindowAndAudio ==
  [][\A i \in 1..MaxInFlight :
       ( /\ SaveSettings(i)
         /\ lastOp = [type |-> "set", value |-> TRUE]
         /\ HasAlwaysOnTop(channel[i].settings)
         /\ channel[i].settings.window.alwaysOnTop = FALSE
         /\ channel[i].settings.audio.volume # currentSettings.audio.volume )
       => ( /\ AlwaysOnTopIs(currentSettings', TRUE)
            /\ "audio" \in DOMAIN currentSettings'
            /\ \A k \in DOMAIN channel[i].settings.audio :
                 /\ k \in DOMAIN currentSettings'.audio
                 /\ currentSettings'.audio[k] = channel[i].settings.audio[k] )
    ]_vars

\* C4: burst: after set-always-on-top true, false, true handled in that order
\* and then a snapshot carrying the stale false, window.alwaysOnTop is true in
\* currentSettings, in the file, and in what a restart loads.
C4_BurstLastWriteWins ==
  burst = 4 => /\ AlwaysOnTopIs(currentSettings, TRUE)
               /\ PersistedAlwaysOnTopIs(file, TRUE)
               /\ RestartAlwaysOnTop(file) = TRUE

\* C5: no regression: handling a snapshot that a newer snapshot of the renderer
\* has overtaken changes nothing in currentSettings, and handling any snapshot
\* never takes window.alwaysOnTop away from the value of the most recent
\* set-always-on-top handled.
C5_NoRegression ==
  [][\A i \in 1..MaxInFlight :
       SaveSettings(i)
         => /\ channel[i].old => currentSettings' = currentSettings
            /\ \A v \in BOOLEAN :
                 (lastSet = {v} /\ AlwaysOnTopIs(currentSettings, v))
                   => AlwaysOnTopIs(currentSettings', v)
    ]_vars

\* C6: restart persistence: when the process starts after a run that ended with
\* nothing in flight and whose last toggle handled was set-always-on-top(v),
\* loadSettings gives window.alwaysOnTop = v and the window's flag is v.
C6_RestartPersistence ==
  \A v \in BOOLEAN :
    (lastOp.type = "start" /\ lastOp.clean /\ lastSet = {v})
      => /\ AlwaysOnTopIs(currentSettings, v)
         /\ mainWindow = "window"
         /\ alwaysOnTopFlag = v

\* C7: a snapshot without a window key leaves the window domain as it was in
\* currentSettings and in the file, so a restart still loads the value of the
\* last set-always-on-top.
C7_MissingDomainUnchanged ==
  [][\A i \in 1..MaxInFlight :
       (SaveSettings(i) /\ "window" \notin DOMAIN channel[i].settings)
         => /\ Prop(currentSettings', "window") = Prop(currentSettings, "window")
            /\ PersistedDomain(file', "window") = PersistedDomain(file, "window")
            /\ \A v \in BOOLEAN :
                 (lastSet = {v} /\ AlwaysOnTopIs(currentSettings, v))
                   => RestartAlwaysOnTop(file') = v
    ]_vars

\* C8: the save-settings handler replaces the whole document, so the order
\* decides: a snapshot carrying a stale window.alwaysOnTop handled after
\* set-always-on-top(v) leaves the stale value in the file (the update is lost);
\* set-always-on-top(v) handled after a snapshot leaves v in the file.
C8_ReplaceDependsOnOrder ==
  [][\A i \in 1..MaxInFlight :
       /\ ( /\ SaveSettings(i)
            /\ lastOp.type = "set"
            /\ HasAlwaysOnTop(channel[i].settings)
            /\ channel[i].settings.window.alwaysOnTop # lastOp.value )
          => PersistedAlwaysOnTopIs(file', ~lastOp.value)
       /\ ( SetAlwaysOnTop(i) /\ lastOp.type = "save" )
          => PersistedAlwaysOnTopIs(file', channel[i].value)
    ]_vars

\* C8 witness: set-always-on-top(true) was handled, the snapshot with the stale
\* false was handled after it, and the file holds false.
C8_LostUpdate ==
  /\ lastOp.type = "save"
  /\ AlwaysOnTopIs(lastOp.settings, FALSE)
  /\ lastSet = {TRUE}
  /\ PersistedAlwaysOnTopIs(file, FALSE)
  /\ RestartAlwaysOnTop(file) = FALSE

\* C9: get-always-on-top is answered with the window's flag as it is when the
\* query is handled, which is the value of the last set-always-on-top handled
\* and not the value of one still in flight.
C9_QueryAnswersProcessedState ==
  [][\A i \in 1..MaxInFlight :
       GetAlwaysOnTop(i)
         => /\ reply' = alwaysOnTopFlag
            /\ lastOp.type = "set" => reply' = lastOp.value
    ]_vars

\* C9 witness: the query was answered false while set-always-on-top(true), sent
\* before the query, is still in flight.
C9_StaleAnswer ==
  /\ peerPc = "answered"
  /\ reply = FALSE
  /\ overtaken = {TRUE}
  /\ \E j \in 1..Len(channel) : channel[j] = [type |-> "set", value |-> TRUE]

\* C10: whenever a window exists after startup, the value get-always-on-top
\* answers equals currentSettings.window.alwaysOnTop.
C10_QueryEqualsStore ==
  (phase = "running" /\ mainWindow = "window")
    => AlwaysOnTopIs(currentSettings, getAlwaysOnTop)

\* C11 as stated: a set-always-on-top whose sender is not the owner of the
\* window domain leaves currentSettings, the file and the window's flag
\* unchanged.
C11_NonOwnerWriteRejected ==
  [][\A i \in 1..MaxInFlight :
       (SetAlwaysOnTop(i) /\ Sender(channel[i]) # OwnershipTable.window)
         => /\ currentSettings' = currentSettings
            /\ file' = file
            /\ alwaysOnTopFlag' = alwaysOnTopFlag
    ]_vars

\* C11: the handler makes no ownership test: every set-always-on-top(v), sent
\* by the renderer, is accepted: the flag of an existing window becomes v, and
\* currentSettings.window.alwaysOnTop becomes v and is written to the file.
C11_RendererWriteAccepted ==
  [][\A i \in 1..MaxInFlight :
       SetAlwaysOnTop(i)
         => /\ Sender(channel[i]) # OwnershipTable.window
            /\ mainWindow = "window" => alwaysOnTopFlag' = channel[i].value
            /\ currentSettings # Null
                 => /\ AlwaysOnTopIs(currentSettings', channel[i].value)
                    /\ file' = saveSettings(currentSettings')
    ]_vars

\* C11 witness: set-always-on-top(true) of the renderer took effect everywhere
C11_RendererWriteApplied ==
  /\ lastOp = [type |-> "set", value |-> TRUE]
  /\ mainWindow = "window" /\ alwaysOnTopFlag = TRUE
  /\ AlwaysOnTopIs(currentSettings, TRUE)
  /\ file = saveSettings(currentSettings)

\* fields of domain d of a document, d absent giving no fields
FieldsKept(before, after, d, except) ==
  \A k \in (DOMAIN Prop(before, d)) \ except :
    /\ d \in DOMAIN after
    /\ k \in DOMAIN after[d]
    /\ after[d][k] = before[d][k]

\* C12: an accepted set-always-on-top changes window.alwaysOnTop and nothing
\* else: every other field of window and every field of every other domain
\* keeps its value, in currentSettings and in the persisted document.
C12_WriteTouchesOnlyNamedField ==
  [][\A i \in 1..MaxInFlight :
       (SetAlwaysOnTop(i) /\ currentSettings # Null)
         => /\ (DOMAIN currentSettings') \ {"window"} = (DOMAIN currentSettings) \ {"window"}
            /\ \A d \in (DOMAIN currentSettings) \ {"window"} :
                 currentSettings'[d] = currentSettings[d]
            /\ FieldsKept(currentSettings, currentSettings', "window", {"alwaysOnTop"})
            /\ file.kind = "json"
                 => /\ file'.kind = "json"
                    /\ \A d \in (DOMAIN file.doc) \ {"window"} :
                         FieldsKept(file.doc, file'.doc, d, {})
                    /\ FieldsKept(file.doc, file'.doc, "window", {"alwaysOnTop"})
    ]_vars

\* C13: handling a snapshot a second time changes nothing: the handler applied
\* to the document it has just produced gives that document and that file
\* again, and when the snapshot handled is the one the previous handler run
\* handled, currentSettings and the file stay as they are.
C13_SnapshotIdempotent ==
  [][\A i \in 1..MaxInFlight :
       SaveSettings(i)
         => LET twice == saveSettingsHandler(currentSettings', channel[i].settings)
            IN /\ twice = currentSettings'
               /\ saveSettings(twice) = file'
               /\ (lastOp.type = "save" /\ lastOp.settings = channel[i].settings)
                    => (currentSettings' = currentSettings /\ file' = file)
    ]_vars

\* C13 witness: the same snapshot was handled twice in a row
C13_DuplicateApplied ==
  /\ lastOp.type = "save"
  /\ lastOp.again
  /\ currentSettings = lastOp.settings
  /\ file = saveSettings(lastOp.settings)

\* C14: after a handler that accepted a mutation, the persisted document is
\* currentSettings and loading the file gives currentSettings back.
C14_WriteThrough ==
  lastOp.type \in {"set", "save"}
    => /\ file = saveSettings(currentSettings)
       /\ loadSettings(file, DEFAULT_SETTINGS.window) = currentSettings

\* what the next start loads from a file
Load(f) == loadSettings(f, DEFAULT_SETTINGS.window)

\* C15: when the process dies inside a commit, the file afterwards is the
\* complete previous file or the complete new document, so the next load gives
\* what one of the two gives.
C15_CommitCrashAtomic ==
  [][\A i \in 1..MaxInFlight :
       CrashDuringCommit(i)
         => /\ file' \in {file, saveSettings(CommitDocument(channel[i]))}
            /\ Load(file') \in {Load(file), Load(saveSettings(CommitDocument(channel[i])))}
    ]_vars

\* C16: when the write of a commit fails, the handler returns, currentSettings
\* holds the accepted mutation, and a restart loads what the last successful
\* commit left in the file.
C16_WriteFailureKeepsLastCommit ==
  [][\A i \in 1..MaxInFlight :
       (SetAlwaysOnTopWriteFails(i) \/ SaveSettingsWriteFails(i))
         => /\ phase' = "running"
            /\ currentSettings' = CommitDocument(channel[i])
            /\ Load(file') = Load(file)
    ]_vars

\* the domains and fields of the persisted document's schema
SchemaFields ==
  [audio |-> DOMAIN DEFAULT_SETTINGS.audio,
   appearance |-> DOMAIN DEFAULT_SETTINGS.appearance,
   window |-> DOMAIN DEFAULT_SETTINGS.window,
   ui |-> {"showControlsHint"},
   playback |-> DOMAIN DEFAULT_SETTINGS.playback]

FullyPopulated(doc) ==
  /\ DOMAIN doc = DOMAIN SchemaFields
  /\ \A d \in DOMAIN doc : DOMAIN doc[d] = SchemaFields[d]

\* C17: round trip: loading a file that holds a fully populated document over
\* audio, appearance, window, ui and playback returns that document.
C17_RoundTrip ==
  [][(WhenReady /\ file.kind = "json" /\ FullyPopulated(file.doc))
       => currentSettings' = file.doc]_vars

\* C18: after loadSettings, every field of DEFAULT_SETTINGS that the file does
\* not have has its default value, and every field the file has in a domain of
\* DEFAULT_SETTINGS has the value of the file.
C18_LoadFillsDefaults ==
  (lastOp.type = "start" /\ file.kind = "json")
    => \A d \in DOMAIN DEFAULT_SETTINGS :
         /\ d \in DOMAIN currentSettings
         /\ DOMAIN currentSettings[d]
              = (DOMAIN DEFAULT_SETTINGS[d]) \cup (DOMAIN Prop(file.doc, d))
         /\ \A k \in DOMAIN currentSettings[d] :
              currentSettings[d][k] = IF k \in DOMAIN Prop(file.doc, d)
                                      THEN file.doc[d][k]
                                      ELSE DEFAULT_SETTINGS[d][k]

\* C18 witness: started on the file of an older version: the missing domains
\* and fields are the defaults, the fields of the file are kept
C18_LoadedOlderFile ==
  /\ lastOp.type = "start"
  /\ file = saveSettings(PartialDocument)
  /\ currentSettings.window.alwaysOnTop = FALSE
  /\ currentSettings.audio.tapeHissLevel = 30
  /\ currentSettings.audio.volume = 50
  /\ currentSettings.playback.folderPath = "/music"

\* the fields of domain d of a document that DEFAULT_SETTINGS does not list
ExtraFields(doc, d) == (DOMAIN Prop(doc, d)) \ (DOMAIN DEFAULT_SETTINGS[d])

\* C19: extra fields inside a domain of DEFAULT_SETTINGS are loaded as they are
\* in the file, and the first commit after the load, by set-always-on-top or by
\* save-settings, writes them with the same values.
C19_ExtraFieldsSurvive ==
  [][ /\ (WhenReady /\ file.kind = "json")
           => \A d \in DOMAIN DEFAULT_SETTINGS : \A k \in ExtraFields(file.doc, d) :
                /\ k \in DOMAIN currentSettings'[d]
                /\ currentSettings'[d][k] = file.doc[d][k]
      /\ \A i \in 1..MaxInFlight :
           ( /\ SetAlwaysOnTop(i) \/ SaveSettings(i)
             /\ lastOp.type = "start"
             /\ file.kind = "json" )
           => \A d \in DOMAIN DEFAULT_SETTINGS :
                FieldsKept(file.doc, file'.doc, d, DOMAIN DEFAULT_SETTINGS[d])
    ]_vars

\* C20: domains of the file that DEFAULT_SETTINGS does not have are in the
\* document loadSettings returns, and in the document the first commit after
\* the load writes.
C20_ExtraDomainsSurvive ==
  [][ /\ (WhenReady /\ file.kind = "json")
           => \A d \in (DOMAIN file.doc) \ (DOMAIN DEFAULT_SETTINGS) :
                /\ d \in DOMAIN currentSettings'
                /\ currentSettings'[d] = file.doc[d]
      /\ \A i \in 1..MaxInFlight :
           ( /\ SetAlwaysOnTop(i) \/ SaveSettings(i)
             /\ lastOp.type = "start"
             /\ file.kind = "json" )
           => \A d \in (DOMAIN file.doc) \ (DOMAIN DEFAULT_SETTINGS) :
                FieldsKept(file.doc, file'.doc, d, {})
    ]_vars

\* C21: when the settings file is absent, unreadable or not valid JSON,
\* loadSettings returns the whole default table and startup creates the window.
C21_LoadNeverFails ==
  (lastOp.type = "start" /\ file.kind # "json")
    => /\ currentSettings = DEFAULT_SETTINGS
       /\ phase = "running"
       /\ mainWindow = "window"

\* C21 witness: started on a file that JSON.parse rejects
C21_StartedOnTornFile ==
  /\ lastOp.type = "start"
  /\ file.kind = "torn"
  /\ currentSettings = DEFAULT_SETTINGS
  /\ mainWindow = "window"

\* C22: while the process runs, every domain of the schema (audio, appearance,
\* window, ui, playback) is in currentSettings, and no handler removes a domain
\* from currentSettings or from the persisted document.
C22_SchemaDomainsExist ==
  [][ /\ phase' = "running" => (DOMAIN SchemaFields) \subseteq (DOMAIN currentSettings')
      /\ \A i \in 1..MaxInFlight :
           (SetAlwaysOnTop(i) \/ SaveSettings(i))
             => /\ (DOMAIN currentSettings) \subseteq (DOMAIN currentSettings')
                /\ file.kind = "json"
                     => (file'.kind = "json" /\ (DOMAIN file.doc) \subseteq (DOMAIN file'.doc))
    ]_vars

\* C24: after startup the window's flag is the loaded window.alwaysOnTop and
\* the settings file has been written again and holds the loaded, fully
\* populated document.
C24_StartupRepersists ==
  lastOp.type = "start"
    => /\ mainWindow = "window"
       /\ alwaysOnTopFlag = currentSettings.window.alwaysOnTop
       /\ file = saveSettings(currentSettings)

\* C27: commutativity: with a set-always-on-top(v) and a save-settings snapshot
\* both in flight, handling them in either order leaves the same document in
\* currentSettings and in the file.
C27_SetAndSnapshotCommute ==
  phase = "running"
    => \A i, j \in 1..Len(channel) :
         (channel[i].type = "set" /\ channel[j].type = "save")
           => LET v == channel[i].value
                  s == channel[j].settings
                  setThenSave == saveSettingsHandler(setAlwaysOnTopSettings(currentSettings, v), s)
                  saveThenSet == setAlwaysOnTopSettings(saveSettingsHandler(currentSettings, s), v)
              IN /\ setThenSave = saveThenSet
                 /\ saveSettings(setThenSave) = saveSettings(saveThenSet)

\* C28: the default table is never modified: DEFAULT_SETTINGS.window keeps its
\* initial content, so a load of an absent file or of a file without
\* window.alwaysOnTop gives alwaysOnTop = false.
C28_DefaultsNeverModified ==
  /\ defaultWindow = DEFAULT_SETTINGS.window
  /\ loadSettings(NoFile, defaultWindow).window.alwaysOnTop = FALSE
  /\ loadSettings(saveSettings(PartialDocument), defaultWindow).window.alwaysOnTop = FALSE

\* C30: field-level merge: after a snapshot is handled, in every domain of the
\* snapshot other than window the submitted fields have the submitted values
\* and every other field keeps its value, in currentSettings and in the file.
C30_SnapshotMergesFields ==
  [][\A i \in 1..MaxInFlight :
       SaveSettings(i)
         => \A d \in (DOMAIN channel[i].settings) \ {"window"} :
              /\ \A k \in DOMAIN channel[i].settings[d] :
                   currentSettings'[d][k] = channel[i].settings[d][k]
              /\ FieldsKept(currentSettings, currentSettings', d, DOMAIN channel[i].settings[d])
              /\ FieldsKept(currentSettings, file'.doc, d, DOMAIN channel[i].settings[d])
    ]_vars

\* the fields the snapshot s submits, outside window, have their values in doc
SubmittedFieldsIn(doc, s) ==
  \A d \in (DOMAIN s) \ {"window"} :
    /\ d \in DOMAIN doc
    /\ \A k \in DOMAIN s[d] : k \in DOMAIN doc[d] /\ doc[d][k] = s[d][k]

\* C25: every set-always-on-top and save-settings in flight is eventually
\* handled, and handling it applies it to currentSettings and writes the
\* file: no command that was sent is dropped without effect.
C25_DispatchedEventuallyApplied ==
  /\ [][\A i \in 1..MaxInFlight :
          /\ SetAlwaysOnTop(i)
               => /\ AlwaysOnTopIs(currentSettings', channel[i].value)
                  /\ file' = saveSettings(currentSettings')
          /\ SaveSettings(i)
               => /\ SubmittedFieldsIn(currentSettings', channel[i].settings)
                  /\ file' = saveSettings(currentSettings')
       ]_vars
  /\ \A v \in BOOLEAN :
       (\E j \in 1..Len(channel) : channel[j] = [type |-> "set", value |-> v])
         ~> ( /\ lastOp = [type |-> "set", value |-> v]
              /\ AlwaysOnTopIs(currentSettings, v)
              /\ PersistedAlwaysOnTopIs(file, v) )
  /\ \A vol \in Volumes :
       (\E j \in 1..Len(channel) :
           channel[j].type = "save" /\ channel[j].settings = SnapshotRenderer(vol))
         ~> ( /\ lastOp.type = "save"
              /\ lastOp.settings = SnapshotRenderer(vol)
              /\ SubmittedFieldsIn(currentSettings, SnapshotRenderer(vol))
              /\ file = saveSettings(currentSettings) )

\* C25 witness: both commands that were in flight have been handled and the
\* file holds the result
C25_AllDelivered ==
  /\ channel = <<>>
  /\ lastOp = [type |-> "set", value |-> TRUE]
  /\ lastSet = {TRUE}
  /\ currentSettings.audio.volume = 50
  /\ AlwaysOnTopIs(currentSettings, TRUE)
  /\ file = saveSettings(currentSettings)

----------------------------------------------------------------------------
\* the persisted folder cannot be restored: it is gone, it cannot be read, it
\* holds no audio file, or the call to the main process fails
InvalidResource ==
  \/ resource.kind \in {"missing", "unreadable", "rejects"}
  \/ resource.kind = "folder" /\ Len(resource.audioFiles) = 0

\* C23: when the persisted playback.folderPath names a folder that is gone,
\* unreadable or without audio files, or the call for its files fails, the
\* restore still reaches its end, the playback fields of audioState stay at
\* their defaults (no folder, no files, track 0), and every audio and
\* appearance value of the loaded document is the one in CONFIG.
C23_InvalidResourceKeepsRestored ==
  (restorePc = "done" /\ hasFolderPath(settingsReply) /\ InvalidResource) =>
    /\ audioState.folderPath = "null"
    /\ audioState.audioFiles = <<>>
    /\ audioState.currentTrackIndex = 0
    /\ \A d \in {"audio", "appearance"} :
         \A k \in DOMAIN RendererConfig[d] :
           k \in DOMAIN Prop(settingsReply, d) => CONFIG[d][k] = settingsReply[d][k]

\* the restore ended on a persisted folder that no longer exists, with the
\* persisted volume applied and the persisted track index dropped
C23_RestoredWithoutFolder ==
  /\ restorePc = "done"
  /\ settingsReply # Null
  /\ hasFolderPath(settingsReply)
  /\ settingsReply.playback.currentTrackIndex = 2
  /\ resource.kind = "missing"
  /\ CONFIG.audio.volume = 50
  /\ audioState = AudioStateInit

\* C29: handling get-always-on-top or get-settings changes neither
\* currentSettings, nor the settings file, nor the always-on-top flag of the
\* window.
C29_QueriesReadOnly ==
  [][((\E i \in 1..MaxInFlight : GetAlwaysOnTop(i)) \/ GetSettings) =>
       /\ currentSettings' = currentSettings
       /\ file' = file
       /\ alwaysOnTopFlag' = alwaysOnTopFlag]_vars

\* both queries were answered, get-always-on-top while the window was on top
\* and the flag was persisted
C29_BothQueriesAnswered ==
  /\ restorePc = "done"
  /\ settingsReply # Null
  /\ peerPc = "answered"
  /\ reply = TRUE
  /\ alwaysOnTopFlag = TRUE
  /\ PersistedAlwaysOnTopIs(file, TRUE)

\* C26: once the settings file path is computed: with PORTABLE_EXECUTABLE_DIR
\* set and the portable paths configured, <dir>/UserData exists and the
\* settings file is <dir>/UserData/settings.json; with the variable not set,
\* or when configuring the portable paths failed, the settings file is under
\* the default userData path.
C26_PortableOrDefaultPath ==
  boot.pc = "ready" =>
    IF boot.env.PORTABLE_EXECUTABLE_DIR # undefined /\ ~boot.caught
    THEN /\ boot.dirExists
         /\ boot.SETTINGS_FILE =
              PathJoin(PathJoin(boot.env.PORTABLE_EXECUTABLE_DIR, "UserData"),
                       "settings.json")
    ELSE boot.SETTINGS_FILE = PathJoin(DefaultUserData, "settings.json")

----------------------------------------------------------------------------
\* the current track index names a track of the list
IndexInRange(state) ==
  state.currentTrackIndex \in 0..(Len(state.audioFiles) - 1)

\* C31: with audio files loaded, every loadTrack(i), nextTrack and prevTrack
\* leaves the current track index inside the list; nextTrack on the last track
\* goes to the first, prevTrack at 3 seconds or less on the first goes to the
\* last; without audio files loadTrack changes nothing and sends nothing.
C31_IndexWrapsInRange ==
  [][ /\ ( /\ ((\E index \in -1..(MaxTracks + 1) : LoadTrack(index))
                 \/ NextTrack \/ PrevTrack)
           /\ Len(audioState.audioFiles) > 0 )
        => /\ IndexInRange(audioState')
           /\ audioState'.audioFiles = audioState.audioFiles
      /\ ( /\ NextTrack
           /\ Len(audioState.audioFiles) > 0
           /\ audioState.currentTrackIndex = Len(audioState.audioFiles) - 1 )
        => audioState'.currentTrackIndex = 0
      /\ ( /\ PrevTrack
           /\ Len(audioState.audioFiles) > 0
           /\ currentTime <= 3
           /\ audioState.currentTrackIndex = 0 )
        => audioState'.currentTrackIndex = Len(audioState.audioFiles) - 1
      /\ ( /\ \E index \in -1..(MaxTracks + 1) : LoadTrack(index)
           /\ Len(audioState.audioFiles) = 0 )
        => UNCHANGED <<audioState, currentTime, channel>>
    ]_vars

\* prevTrack on the first of three tracks loaded the last one and sent its
\* snapshot; the track is 2 seconds in
C31_OnLastTrack ==
  /\ Len(audioState.audioFiles) = 3
  /\ audioState.currentTrackIndex = 2
  /\ audioState.src = 3
  /\ currentTime = 2
  /\ lastCall = [op |-> "prevTrack", from |-> 0, restarted |-> FALSE]
  /\ channel # <<>>
  /\ channel[Len(channel)].settings.playback.currentTrackIndex = 2

\* C32: restorePlaybackState on a folder with audio files leaves the current
\* track index inside the list, whatever playback.currentTrackIndex was
\* persisted.
C32_RestoreClampsIndex ==
  [][(RestorePlaybackState /\ Len(audioState'.audioFiles) > 0)
       => IndexInRange(audioState')]_vars

\* C36: prevTrack more than 3 seconds into the track sets the position to 0,
\* keeps the current track index and sends no snapshot; at 3 seconds or less,
\* with audio files loaded, it loads the track before (the last one from the
\* first) and the snapshot of that load is sent.
C36_PrevRestartsAfterThreeSeconds ==
  [][PrevTrack =>
       IF currentTime > 3
       THEN /\ currentTime' = 0
            /\ audioState' = audioState
            /\ channel' = channel
       ELSE Len(audioState.audioFiles) > 0 =>
              /\ audioState'.currentTrackIndex =
                   loadTrackIndex(audioState.currentTrackIndex - 1,
                                  Len(audioState.audioFiles))
              /\ Len(channel') = Len(channel) + 1
    ]_vars

\* prevTrack restarted the second of two tracks: position 0 and nothing in
\* flight
C36_RestartedTrack ==
  /\ lastCall = [op |-> "prevTrack", from |-> 1, restarted |-> TRUE]
  /\ Len(audioState.audioFiles) = 2
  /\ audioState.currentTrackIndex = 1
  /\ audioState.src = 2
  /\ currentTime = 0
  /\ channel = <<>>

IsPermutation(p, n) ==
  /\ Len(p) = n
  /\ {p[i] : i \in 1..Len(p)} = 0..(n - 1)

(* C33: navigating a shuffled playlist that is a permutation of the n tracks,
   n consecutive steps visit every track exactly once and the step after them
   is back on the track the navigation started from. *)
C33_ShuffleVisitsEachOnce ==
  LET n == Len(audioState.audioFiles)
  IN  (IsPermutation(shuffledPlaylist, n) /\ Len(visited) >= n /\ n > 0) =>
        /\ {visited[i] : i \in 1..n} = 0..(n - 1)
        /\ \A i, j \in 1..n : visited[i] = visited[j] => i = j
        /\ Len(visited) = n => audioState.currentTrackIndex = visited[1]
        /\ Len(visited) > n => visited[n + 1] = visited[1]

C33_FullRound ==
  /\ Len(audioState.audioFiles) = MaxTracks
  /\ IsPermutation(shuffledPlaylist, MaxTracks)
  /\ shuffledPlaylist # ArrayFromLength(MaxTracks)
  /\ Len(visited) = MaxTracks
  /\ audioState.currentTrackIndex = visited[1]
  /\ lastCall.op = "shuffleStep"

(* C34: restoring the playback state loads the saved track without adding to
   the history, so the history is left as it was, empty; the persisted
   shuffled playlist is adopted exactly when its length is the number of
   files of the folder, and the track loaded is the one of the restored
   index. *)
C34_RestoreKeepsHistory ==
  [][RestorePlaybackState_NEW =>
       LET n == Len(filesReply.audioFiles)
           persisted == settingsReply.playback.shuffledPlaylist
       IN  /\ trackHistory' = trackHistory
           /\ trackHistory' = <<>>
           /\ shuffledPlaylist' = IF Len(persisted) = n THEN persisted
                                  ELSE shuffledPlaylist
           /\ n > 0 => /\ IndexInRange(audioState')
                       /\ audioState'.src =
                            At(audioState'.audioFiles, audioState'.currentTrackIndex).name
     ]_vars

C34_RestoredShuffled ==
  /\ restorePc = "done"
  /\ lastCall.op = "restore"
  /\ Len(audioState.audioFiles) = 2
  /\ shuffledPlaylist = <<1, 0>>
  /\ audioState.currentTrackIndex = 1
  /\ audioState.src = 2
  /\ trackHistory = <<>>

(* C35: loadTrack pushes the previous index onto the history only when
   addToHistory is true and the index differs; the history never exceeds 50
   entries and the oldest is dropped first; going back pops the most recently
   added entry. *)
C35_HistoryBounded ==
  [][/\ Len(trackHistory') <= maxHistory
     /\ \A index \in -1..2, addToHistory \in BOOLEAN :
          (LoadTrackWithHistory(index, addToHistory) /\ Len(audioState.audioFiles) > 0) =>
            LET current == audioState.currentTrackIndex
                target == audioState'.currentTrackIndex
            IN  IF addToHistory /\ target # current
                THEN /\ trackHistory'[Len(trackHistory')] = current
                     /\ IF Len(trackHistory) < maxHistory
                        THEN trackHistory' = Append(trackHistory, current)
                        ELSE trackHistory' = Append(Tail(trackHistory), current)
                ELSE trackHistory' = trackHistory
     /\ GoBack =>
          /\ trackHistory' = SubSeq(trackHistory, 1, Len(trackHistory) - 1)
          /\ lastCall'.prev = trackHistory[Len(trackHistory)]
          /\ audioState'.currentTrackIndex = trackHistory[Len(trackHistory)]
    ]_vars

C35_OldestDropped ==
  /\ lastCall.op = "loadTrack"
  /\ lastCall.addToHistory
  /\ lastCall.shifted
  /\ lastCall.from # audioState.currentTrackIndex
  /\ Len(trackHistory) = maxHistory
  /\ trackHistory[maxHistory] = lastCall.from

(* C37: whenever the shuffled playlist is not empty it is a permutation of
   0..n-1 for the n loaded tracks, and the current track is found in it, in
   every state reached by generating the playlist, restoring it from the
   persisted document and navigating. *)
C37_PlaylistIsPermutation ==
  Len(shuffledPlaylist) > 0 =>
    /\ IsPermutation(shuffledPlaylist, Len(audioState.audioFiles))
    /\ indexOf(shuffledPlaylist, audioState.currentTrackIndex) >= 0

C37_RestoredPermutation ==
  /\ restorePc = "done"
  /\ lastCall.op = "shuffleStep"
  /\ Len(audioState.audioFiles) = MaxTracks
  /\ Len(shuffledPlaylist) = MaxTracks
  /\ shuffledPlaylist = settingsReply.playback.shuffledPlaylist
  /\ indexOf(shuffledPlaylist, audioState.currentTrackIndex) = MaxTracks - 1

(* C38, as stated: while the main window exists and is hidden a close of the
   splash window is prevented; 'app-ready' with a main window present leaves
   the main window visible, no splash window open and the splash reference
   null. *)
C38_SplashReferenceNull ==
  [][/\ (SplashCloseRequest /\ mainWindow = "window" /\ ~mainVisible) =>
          (splashShown' /\ splashWindow' = "window")
     /\ (AppReady /\ mainWindow = "window") =>
          (mainVisible' /\ ~splashShown' /\ splashWindow' = "null")
    ]_vars

(* C38, amended: while the main window exists and is hidden a close of the
   splash window is prevented; 'app-ready' with a main window present shows
   the main window first, so the close of a splash window that is still open
   is not prevented: afterwards the main window is visible and no splash
   window is open; the reference is null when the splash window was open at
   'app-ready', and is left at the destroyed window when the splash window had
   been closed before. *)
C38_SplashClosedAfterShow ==
  [][/\ (SplashCloseRequest /\ mainWindow = "window" /\ ~mainVisible) =>
          (splashShown' /\ splashWindow' = "window")
     /\ (AppReady /\ mainWindow = "window") =>
          /\ mainVisible'
          /\ ~splashShown'
          /\ splashWindow' = IF SplashOpen THEN "null" ELSE splashWindow
    ]_vars

C38_ShownThenSplashClosed ==
  /\ lastCall = [op |-> "appReady", hadWindow |-> TRUE, splashOpen |-> TRUE]
  /\ mainWindow = "window"
  /\ mainVisible
  /\ splashWindow = "null"
  /\ ~splashShown
  /\ splashProgress = 100

====
